---- MODULE Spec2Model ----
(***************************************************************************)
(* Model of the documentation pipeline scripts                             *)
(*   scripts/generate-docusaurus-md.py  and  scripts/prune-toc.py.         *)
(*                                                                         *)
(* Each function of the scripts that the claims speak about is modelled as *)
(* a small state machine of its own (one specification per function):      *)
(*   SpecClassify   classify_types                                         *)
(*   SpecRegions    parse_region_tags                                      *)
(*   SpecOverwrite  load_overwrite_examples                                *)
(*   SpecLoad       load_all_types                                         *)
(*   SpecPrune      prune-toc.py: main and prune                           *)
(*   SpecBanner     inject_tech_preview_banner                             *)
(*   SpecLinks      rewrite_camunda_docs_links, _rewrite_landing_links     *)
(*   SpecMain       generate-docusaurus-md.py: main                        *)
(*   SpecMethods    generate_camunda_client (Methods section), _method_group *)
(* A specification drives the variables of its own function and leaves the *)
(* variables of the other functions at their idle values.                  *)
(*                                                                         *)
(* Python strings whose characters matter (suffix and substring tests) are *)
(* sequences of one-character strings; strings that are only compared for  *)
(* equality are TLA+ strings.                                              *)
(***************************************************************************)
EXTENDS Naturals, Sequences, FiniteSets, TLC

VARIABLES
    \* classify_types -------------------------------------------------------
    cl_types,      \* the elements of `types` the for loop has visited, in order
    pages,         \* pages: bucket name -> list of (positions of) TypeItems
    cl_pc,         \* "idle" | "loop" | "done"
    \* parse_region_tags ----------------------------------------------------
    rt_text,       \* the lines of text.splitlines() the for loop has read, in order
    regions,       \* regions: region name -> dedented code block
    current_tag,   \* current_tag: name of the open region, or None
    lines,         \* lines: raw lines accumulated for the open region
    rt_pc,         \* "idle" | "scan" | "done"
    \* load_overwrite_examples ----------------------------------------------
    ex_files,      \* examples_dir: file name -> lines of the .cs file
    ex_order,      \* the order in which examples_dir.glob("*.cs") yields the files
    ex_i,          \* number of example files already merged into all_regions
    all_regions,   \* all_regions: region name -> code block
    ov_md,         \* the overwrite files opened so far, each the list of the
                   \* sections the inner loop has visited (the last is being read)
    current_uid,   \* current_uid: the uid waiting for its example, or None
    uid_to_example,\* uid_to_example: uid -> code example
    ov_pc,         \* "idle" | "examples" | "files" | "scan" | "done"
    \* load_all_types -------------------------------------------------------
    api_dir,       \* api_dir: file name -> the records (data["items"]) of the file
    examples,      \* examples: uid -> code example
    yml_files,     \* yml_files = sorted(api_dir.glob("*.yml"))
    ld_i,          \* number of files the for loop has visited
    ld_types,      \* types: the TypeItems built so far
    ld_pc,         \* "idle" | "loop" | "done"
    \* prune-toc.py main ---------------------------------------------------
    toc_in,        \* the parsed content of toc.json before the first run
    toc_file,      \* the parsed content of toc.json now
    toc_prev,      \* the parsed content of toc.json before the latest run
    pr_runs,       \* number of runs of main so far
    pr_exc,        \* the exception that ended the latest run, or None
    pr_pc,         \* "idle" | "build" (toc.json is being written) | "ready"
    \* inject_tech_preview_banner ------------------------------------------
    bn_content,    \* content: the characters of the page
    bn_result,     \* the string the call returned
    bn_pc,         \* "idle" | "input" (the page is being written) | "done"
    \* generate_camunda_client: the Methods section --------------------------
    methods,       \* methods: the names of the methods the first loop has visited
    groups,        \* groups: the (group, [positions in methods]) pairs of the
                   \* dict, in insertion order
    mg_i,          \* number of groups the second loop has emitted
    mg_out,        \* the headings appended to out: <<"###", group>>, <<"####", name>>
    mg_pc,         \* "idle" | "group" | "emit" | "done"
    \* rewrite_camunda_docs_links, _rewrite_landing_links --------------------
    lk_content,    \* content: the tokens of the page
    lk_n,          \* number of pieces the page was written in
    lk_api,        \* what rewrite_camunda_docs_links(content) returned
    lk_landing,    \* what _rewrite_landing_links(content) returned
    lk_pc,         \* "idle" | "input" (the page is being written) | "api" | "done"
    \* generate-docusaurus-md.py main ---------------------------------------
    api_exists,    \* API_DIR.exists()
    metadata_ok,   \* the metadata and overwrite files load without an exception
    readme_exists, \* README_PATH.exists()
    out_files,     \* the files under docs-md that exist
    written,       \* the files this run has written, in order
    exit_status,   \* the exit status of the run, or None while it runs
    gn_pc          \* "idle" | "start" | "pages" | "sidebar" | "landing" | "exited"

classifyVars == <<cl_types, pages, cl_pc>>
regionVars == <<rt_text, regions, current_tag, lines, rt_pc>>
overwriteVars == <<ex_files, ex_order, ex_i, all_regions, ov_md, current_uid,
                   uid_to_example, ov_pc>>
loadVars == <<api_dir, examples, yml_files, ld_i, ld_types, ld_pc>>
pruneVars == <<toc_in, toc_file, toc_prev, pr_runs, pr_exc, pr_pc>>
bannerVars == <<bn_content, bn_result, bn_pc>>
methodsVars == <<methods, groups, mg_i, mg_out, mg_pc>>
linksVars == <<lk_content, lk_n, lk_api, lk_landing, lk_pc>>
mainVars == <<api_exists, metadata_ok, readme_exists, out_files, written, exit_status, gn_pc>>
vars == <<classifyVars, regionVars, overwriteVars, loadVars, pruneVars, bannerVars, methodsVars, linksVars, mainVars>>

\* the variables a function's specification leaves at their idle values
classifyOthers == <<regionVars, overwriteVars, loadVars, pruneVars, bannerVars, methodsVars, linksVars, mainVars>>
regionOthers == <<classifyVars, overwriteVars, loadVars, pruneVars, bannerVars, methodsVars, linksVars, mainVars>>
overwriteOthers == <<classifyVars, regionVars, loadVars, pruneVars, bannerVars, methodsVars, linksVars, mainVars>>
loadOthers == <<classifyVars, regionVars, overwriteVars, pruneVars, bannerVars, methodsVars, linksVars, mainVars>>
pruneOthers == <<classifyVars, regionVars, overwriteVars, loadVars, bannerVars, methodsVars, linksVars, mainVars>>
bannerOthers == <<classifyVars, regionVars, overwriteVars, loadVars, pruneVars, methodsVars, linksVars, mainVars>>
methodsOthers == <<classifyVars, regionVars, overwriteVars, loadVars, pruneVars, bannerVars, linksVars, mainVars>>
linksOthers == <<classifyVars, regionVars, overwriteVars, loadVars, pruneVars, bannerVars, methodsVars, mainVars>>
mainOthers == <<classifyVars, regionVars, overwriteVars, loadVars, pruneVars, bannerVars, methodsVars, linksVars>>

(***************************************************************************)
(* Strings as character sequences                                          *)
(***************************************************************************)

\* sub occurs in s starting at position i (1-based)
MatchesAt(s, sub, i) ==
    /\ i >= 1
    /\ i + Len(sub) - 1 <= Len(s)
    /\ \A k \in 1..Len(sub) : s[i + k - 1] = sub[k]

\* Python: sub in s
StrContains(s, sub) == \E i \in 1..(Len(s) + 1) : MatchesAt(s, sub, i)

\* Python: s.endswith(suf)
StrEndsWith(s, suf) ==
    /\ Len(suf) <= Len(s)
    /\ MatchesAt(s, suf, Len(s) - Len(suf) + 1)

S_CamundaClient == <<"C","a","m","u","n","d","a","C","l","i","e","n","t">>
S_Camunda == <<"C","a","m","u","n","d","a">>
S_CamundaServiceCollectionExtensions == <<"C","a","m","u","n","d","a","S","e","r","v","i","c","e","C","o","l","l","e","c","t","i","o","n","E","x","t","e","n","s","i","o","n","s">>
S_CamundaOptions == <<"C","a","m","u","n","d","a","O","p","t","i","o","n","s">>
S_CamundaConfig == <<"C","a","m","u","n","d","a","C","o","n","f","i","g">>
S_ConfigurationHydrator == <<"C","o","n","f","i","g","u","r","a","t","i","o","n","H","y","d","r","a","t","o","r">>
S_AuthConfig == <<"A","u","t","h","C","o","n","f","i","g">>
S_BasicAuthConfig == <<"B","a","s","i","c","A","u","t","h","C","o","n","f","i","g">>
S_OAuthConfig == <<"O","A","u","t","h","C","o","n","f","i","g">>
S_OAuthRetryConfig == <<"O","A","u","t","h","R","e","t","r","y","C","o","n","f","i","g">>
S_HttpRetryConfig == <<"H","t","t","p","R","e","t","r","y","C","o","n","f","i","g">>
S_BackpressureConfig == <<"B","a","c","k","p","r","e","s","s","u","r","e","C","o","n","f","i","g">>
S_EventualConfig == <<"E","v","e","n","t","u","a","l","C","o","n","f","i","g">>
S_ValidationConfig == <<"V","a","l","i","d","a","t","i","o","n","C","o","n","f","i","g">>
S_ValidationMode == <<"V","a","l","i","d","a","t","i","o","n","M","o","d","e">>
S_AuthStrategy == <<"A","u","t","h","S","t","r","a","t","e","g","y">>
S_JobWorkerConfig == <<"J","o","b","W","o","r","k","e","r","C","o","n","f","i","g">>
S_ConfigErrorCode == <<"C","o","n","f","i","g","E","r","r","o","r","C","o","d","e">>
S_ConfigErrorDetail == <<"C","o","n","f","i","g","E","r","r","o","r","D","e","t","a","i","l">>
S_Key == <<"K","e","y">>
S_Runtime == <<"R","u","n","t","i","m","e">>

\* Values of the inputs the model enumerates (not constants of the program)
S_JobKey == <<"J","o","b","K","e","y">>
S_JobResult == <<"J","o","b","R","e","s","u","l","t">>
S_Sdk == <<"S","d","k">>
S_SdkRuntime == <<"S","d","k",".","R","u","n","t","i","m","e">>
S_Empty == << >>

(***************************************************************************)
(* classify_types                                                          *)
(***************************************************************************)

\* the six keys of `pages`, in the order the dict literal creates them
PageNames == <<"camunda-client", "configuration", "runtime", "models", "enums", "keys">>

Buckets == {PageNames[k] : k \in 1..Len(PageNames)}

EmptyPages == [b \in Buckets |-> << >>]

\* name in ("CamundaClient", "Camunda", "CamundaServiceCollectionExtensions")
CLIENT_TYPES == {S_CamundaClient, S_Camunda, S_CamundaServiceCollectionExtensions}

CONFIGURATION_TYPES ==
    { S_CamundaOptions, S_CamundaConfig, S_ConfigurationHydrator, S_AuthConfig,
      S_BasicAuthConfig, S_OAuthConfig, S_OAuthRetryConfig, S_HttpRetryConfig,
      S_BackpressureConfig, S_EventualConfig, S_ValidationConfig, S_ValidationMode,
      S_AuthStrategy, S_JobWorkerConfig, S_ConfigErrorCode, S_ConfigErrorDetail }

\* mutant of NsOf: the marker is looked for in namespace and parent together
NsOf_Both(t) == t.namespace \o <<"|">> \o t.parent

\* ns = t.namespace or t.parent or ""
NsOf(t) ==
    IF t.namespace # S_Empty THEN t.namespace
    ELSE IF t.parent # S_Empty THEN t.parent
    ELSE S_Empty

\* mutant of BucketOf: the Enum rule is tried before the configuration rule
BucketOf_EnumFirst(t) ==
    IF t.name \in CLIENT_TYPES THEN "camunda-client"
    ELSE IF t.type_kind = "Enum" THEN "enums"
    ELSE IF t.name \in CONFIGURATION_TYPES THEN "configuration"
    ELSE IF t.type_kind = "Struct" /\ StrEndsWith(t.name, S_Key) THEN "keys"
    ELSE IF StrContains(NsOf(t), S_Runtime) THEN "runtime"
    ELSE "models"

\* the if/elif chain of the loop body: the bucket the type is appended to
BucketOf(t) ==
    IF t.name \in CLIENT_TYPES THEN "camunda-client"
    ELSE IF t.name \in CONFIGURATION_TYPES THEN "configuration"
    ELSE IF t.type_kind = "Enum" /\ t.name \notin CONFIGURATION_TYPES THEN "enums"
    ELSE IF t.type_kind = "Struct" /\ StrEndsWith(t.name, S_Key) THEN "keys"
    ELSE IF StrContains(NsOf(t), S_Runtime) THEN "runtime"
    ELSE "models"

\* mutant of PageAppend: an Enum is appended to its bucket and to models as well
PageAppend_Twice(p, b, i) ==
    IF b = "enums"
    THEN [p EXCEPT ![b] = Append(@, i), !["models"] = Append(@, i)]
    ELSE [p EXCEPT ![b] = Append(@, i)]

\* pages[b].append(t); the list element is identified by its position in types
PageAppend(p, b, i) == [p EXCEPT ![b] = Append(@, i)]

\* bound: number of TypeItems passed to classify_types
MaxTypes == 2

ClassifyNames ==
    { S_CamundaClient, S_Camunda, S_CamundaServiceCollectionExtensions,
      S_ValidationMode, S_JobKey, S_JobResult }

ClassifyKinds == {"Class", "Struct", "Enum"}

\* <<namespace, parent>> of the enumerated TypeItems
ClassifyNsParent ==
    { <<S_Sdk, S_Sdk>>, <<S_SdkRuntime, S_SdkRuntime>>,
      <<S_Sdk, S_SdkRuntime>>, <<S_Empty, S_SdkRuntime>> }

ClassifyDomain ==
    { [name |-> n, type_kind |-> k, namespace |-> np[1], parent |-> np[2]] :
        n \in ClassifyNames, k \in ClassifyKinds, np \in ClassifyNsParent }

ClassifyIdle ==
    /\ cl_types = << >>
    /\ pages = EmptyPages
    /\ cl_pc = "idle"

\* entry of classify_types: the six empty buckets
ClassifyInit ==
    /\ cl_types = << >>
    /\ pages = EmptyPages
    /\ cl_pc = "loop"

\* one iteration of `for t in types` on the next element t of the list
ClassifyType(t) ==
    /\ cl_pc = "loop"
    /\ Len(cl_types) < MaxTypes
    /\ cl_types' = Append(cl_types, t)
    /\ pages' = PageAppend(pages, BucketOf(t), Len(cl_types) + 1)
    /\ cl_pc' = "loop"
    /\ UNCHANGED classifyOthers

\* the list is exhausted: return pages
ClassifyReturn ==
    /\ cl_pc = "loop"
    /\ cl_pc' = "done"
    /\ UNCHANGED <<cl_types, pages>>
    /\ UNCHANGED classifyOthers

ClassifyNext ==
    \/ \E t \in ClassifyDomain : ClassifyType(t)
    \/ ClassifyReturn


(***************************************************************************)
(* parse_region_tags                                                       *)
(*                                                                         *)
(* A line of the file is [indent, body]: indent is its leading run of      *)
(* spaces and tabs, body is what line.strip() leaves:                      *)
(*   <<"open", n>>   // <n>      (m_open matches, group(1) = n)            *)
(*   <<"close", n>>  // </n>     (m_close matches, group(1) = n)           *)
(*   <<"code", c>>   any other non-blank text c                            *)
(*   <<"blank">>     nothing: the line is empty or whitespace only         *)
(* A text (the value "\n".join builds, the value dedent returns) is a      *)
(* non-empty sequence of lines: the empty string is one empty line.        *)
(***************************************************************************)

None == "<None>"

Line(indent, body) == [indent |-> indent, body |-> body]

EmptyLine == Line(<< >>, <<"blank">>)

IsOpen(l) == l.body[1] = "open"
IsClose(l) == l.body[1] = "close"
IsBlank(l) == l.body[1] = "blank"
TagOf(l) == l.body[2]

\* "\n".join(lines): joining no line and joining one empty line both give ""
JoinLines(ls) == IF ls = << >> THEN <<EmptyLine>> ELSE ls

\* the longest common prefix of a non-empty set of whitespace runs
CommonPrefix(S) ==
    LET one == CHOOSE x \in S : TRUE
        agree(k) == \A x \in S : Len(x) >= k /\ SubSeq(x, 1, k) = SubSeq(one, 1, k)
        n == CHOOSE k \in 0..Len(one) : agree(k) /\ (k = Len(one) \/ ~agree(k + 1))
    IN  SubSeq(one, 1, n)

\* mutant of Dedent: the text is stored as it was read
Dedent_Identity(txt) == txt

\* textwrap.dedent(text): whitespace-only lines become empty; the margin is the
\* longest common leading whitespace of the other lines and is removed from them
Dedent(txt) ==
    LET indents == {txt[i].indent : i \in {j \in 1..Len(txt) : ~IsBlank(txt[j])}}
        margin == IF indents = {} THEN << >> ELSE CommonPrefix(indents)
    IN  [i \in 1..Len(txt) |->
            IF IsBlank(txt[i]) THEN EmptyLine
            ELSE Line(SubSeq(txt[i].indent, Len(margin) + 1, Len(txt[i].indent)),
                      txt[i].body)]

\* regions[tag] = value
DictSet(d, key, value) ==
    [k \in DOMAIN d \cup {key} |-> IF k = key THEN value ELSE d[k]]

EmptyDict == [k \in {} |-> << >>]

\* mutant of RegionStep: an end marker closes the open region whatever its name
RegionStep_AnyClose(st, l) ==
    IF IsOpen(l)
    THEN [st EXCEPT !.current_tag = TagOf(l), !.lines = << >>]
    ELSE IF IsClose(l) /\ st.current_tag # None
    THEN [regions |-> DictSet(st.regions, st.current_tag, Dedent(JoinLines(st.lines))),
          current_tag |-> None,
          lines |-> << >>]
    ELSE IF st.current_tag # None
    THEN [st EXCEPT !.lines = Append(@, l)]
    ELSE st

\* mutant of RegionStep: a start marker does not reset the accumulated lines
RegionStep_KeepLines(st, l) ==
    IF IsOpen(l)
    THEN [st EXCEPT !.current_tag = TagOf(l)]
    ELSE IF IsClose(l) /\ st.current_tag = TagOf(l)
    THEN [regions |-> DictSet(st.regions, st.current_tag, Dedent(JoinLines(st.lines))),
          current_tag |-> None,
          lines |-> << >>]
    ELSE IF st.current_tag # None
    THEN [st EXCEPT !.lines = Append(@, l)]
    ELSE st

\* the body of `for line in text.splitlines()` on the line l
RegionStep(st, l) ==
    IF IsOpen(l)
    THEN [st EXCEPT !.current_tag = TagOf(l), !.lines = << >>]
    ELSE IF IsClose(l) /\ st.current_tag = TagOf(l)
    THEN [regions |-> DictSet(st.regions, st.current_tag, Dedent(JoinLines(st.lines))),
          current_tag |-> None,
          lines |-> << >>]
    ELSE IF st.current_tag # None
    THEN [st EXCEPT !.lines = Append(@, l)]
    ELSE st

\* the locals of parse_region_tags before the loop
RegionStart == [regions |-> EmptyDict, current_tag |-> None, lines |-> << >>]

RECURSIVE ScanLines(_, _)
ScanLines(st, text) ==
    IF text = << >> THEN st ELSE ScanLines(RegionStep(st, Head(text)), Tail(text))

\* parse_region_tags(cs_path) for a file whose lines are text
parse_region_tags(text) == ScanLines(RegionStart, text).regions

\* bound: number of lines of an example file
MaxLines == 5

\* the lines an example file is made of
LineDomain ==
    { Line(<< >>, <<"open", "A">>),
      Line(<<" ">>, <<"open", "B">>),
      Line(<<" ">>, <<"close", "A">>),
      Line(<< >>, <<"close", "B">>),
      Line(<<" ", " ">>, <<"code", "x">>),
      Line(<<" ">>, <<"code", "y">>),
      Line(<<"\t">>, <<"code", "z">>),
      Line(<<" ", " ">>, <<"blank">>) }

RegionIdle ==
    /\ rt_text = << >>
    /\ regions = EmptyDict
    /\ current_tag = None
    /\ lines = << >>
    /\ rt_pc = "idle"

\* entry of parse_region_tags
RegionInit ==
    /\ rt_text = << >>
    /\ regions = RegionStart.regions
    /\ current_tag = RegionStart.current_tag
    /\ lines = RegionStart.lines
    /\ rt_pc = "scan"

\* one iteration of the loop on the next line l of the file
ReadLine(l) ==
    /\ rt_pc = "scan"
    /\ Len(rt_text) < MaxLines
    /\ LET st == RegionStep([regions |-> regions, current_tag |-> current_tag,
                             lines |-> lines], l)
       IN  /\ regions' = st.regions
           /\ current_tag' = st.current_tag
           /\ lines' = st.lines
    /\ rt_text' = Append(rt_text, l)
    /\ rt_pc' = "scan"
    /\ UNCHANGED regionOthers

\* end of file: return regions
RegionReturn ==
    /\ rt_pc = "scan"
    /\ rt_pc' = "done"
    /\ UNCHANGED <<rt_text, regions, current_tag, lines>>
    /\ UNCHANGED regionOthers

RegionNext ==
    \/ \E l \in LineDomain : ReadLine(l)
    \/ RegionReturn

(***************************************************************************)
(* load_overwrite_examples                                                 *)
(*                                                                         *)
(* A section of an overwrite file (a piece between two --- lines) is       *)
(*   blank  TRUE when section.strip() is empty                             *)
(*   uid    the stripped group of the first `uid: ...` line, or None       *)
(*   ref    <<file, region>> of the first [!code-csharp[](../examples/     *)
(*          file#region)] reference in the section, or NoRef               *)
(***************************************************************************)

\* code_ref is None (re.search found no reference)
NoRef == << >>

Section(blank, uid, ref) == [blank |-> blank, uid |-> uid, ref |-> ref]

\* all_regions.update(d)
DictUpdate(d, e) ==
    [k \in DOMAIN d \cup DOMAIN e |-> IF k \in DOMAIN e THEN e[k] ELSE d[k]]

\* mutant of OverwriteStep: current_uid is not cleared after a code reference
OverwriteStep_NoClear(st, sec, allreg) ==
    IF sec.blank THEN st
    ELSE IF sec.uid # None THEN [st EXCEPT !.current_uid = sec.uid]
    ELSE IF sec.ref # NoRef /\ st.current_uid # None
    THEN IF sec.ref[2] \in DOMAIN allreg
         THEN [st EXCEPT !.uid_to_example = DictSet(@, st.current_uid, allreg[sec.ref[2]])]
         ELSE st
    ELSE st

\* the body of `for section in sections`
OverwriteStep(st, sec, allreg) ==
    IF sec.blank THEN st
    ELSE IF sec.uid # None THEN [st EXCEPT !.current_uid = sec.uid]
    ELSE IF sec.ref # NoRef /\ st.current_uid # None
    THEN [current_uid |-> None,
          uid_to_example |->
              IF sec.ref[2] \in DOMAIN allreg
              THEN DictSet(st.uid_to_example, st.current_uid, allreg[sec.ref[2]])
              ELSE st.uid_to_example]
    ELSE st

\* bound: number of sections read over all overwrite files
MaxSections == 3

\* bound: number of overwrite files
MaxMdFiles == 2

ExampleFileNames == {"A.cs", "B.cs"}

\* the contents an example file can have
Text_SampleX ==
    << Line(<< >>, <<"open", "Sample">>),
       Line(<<" ", " ">>, <<"code", "x">>),
       Line(<< >>, <<"close", "Sample">>) >>

Text_SampleY ==
    << Line(<< >>, <<"open", "Sample">>),
       Line(<<" ">>, <<"code", "y">>),
       Line(<< >>, <<"close", "Sample">>) >>

Text_Other ==
    << Line(<< >>, <<"open", "Other">>),
       Line(<< >>, <<"code", "z">>),
       Line(<< >>, <<"close", "Other">>) >>

\* the example directories: A.cs and B.cs, each with or without a region Sample
ExampleDirs ==
    { [f \in ExampleFileNames |-> IF f = "A.cs" THEN a ELSE b] :
        a \in {Text_SampleX, Text_Other}, b \in {Text_SampleY, Text_Other} }

\* the sections an overwrite file is made of
SectionDomain ==
    { Section(TRUE, None, NoRef),
      Section(FALSE, "T:Foo", NoRef),
      Section(FALSE, "M:Foo.Bar", NoRef),
      Section(FALSE, None, <<"A.cs", "Sample">>),
      Section(FALSE, None, <<"B.cs", "Other">>),
      Section(FALSE, "T:Foo", <<"A.cs", "Sample">>),
      Section(FALSE, None, NoRef) }

\* the orders in which a directory listing can yield the files of S
Orders(S) ==
    {o \in [1..Cardinality(S) -> S] : \A i, j \in 1..Cardinality(S) : o[i] = o[j] => i = j}

RECURSIVE TotalLen(_)
TotalLen(ss) == IF ss = << >> THEN 0 ELSE Len(Head(ss)) + TotalLen(Tail(ss))

OverwriteIdle ==
    /\ ex_files = EmptyDict
    /\ ex_order = << >>
    /\ ex_i = 0
    /\ all_regions = EmptyDict
    /\ ov_md = << >>
    /\ current_uid = None
    /\ uid_to_example = EmptyDict
    /\ ov_pc = "idle"

\* entry of load_overwrite_examples: the two directories as they are on disk
OverwriteInit ==
    /\ ex_files \in ExampleDirs
    /\ ex_order \in Orders(ExampleFileNames)
    /\ ex_i = 0
    /\ all_regions = EmptyDict
    /\ ov_md = << >>
    /\ current_uid = None
    /\ uid_to_example = EmptyDict
    /\ ov_pc = "examples"

\* one iteration of `for cs_file in examples_dir.glob("*.cs")`
LoadExampleFile ==
    /\ ov_pc = "examples"
    /\ ex_i < Len(ex_order)
    /\ all_regions' = DictUpdate(all_regions, parse_region_tags(ex_files[ex_order[ex_i + 1]]))
    /\ ex_i' = ex_i + 1
    /\ UNCHANGED <<ex_files, ex_order, ov_md, current_uid, uid_to_example, ov_pc>>
    /\ UNCHANGED overwriteOthers

\* the example files are exhausted: uid_to_example = {}
ExamplesLoaded ==
    /\ ov_pc = "examples"
    /\ ex_i = Len(ex_order)
    /\ uid_to_example' = EmptyDict
    /\ ov_pc' = "files"
    /\ UNCHANGED <<ex_files, ex_order, ex_i, all_regions, ov_md, current_uid>>
    /\ UNCHANGED overwriteOthers

\* the next overwrite file is read and split: current_uid = None
OpenOverwriteFile ==
    /\ ov_pc \in {"files", "scan"}
    /\ Len(ov_md) < MaxMdFiles
    /\ ov_md' = Append(ov_md, << >>)
    /\ current_uid' = None
    /\ ov_pc' = "scan"
    /\ UNCHANGED <<ex_files, ex_order, ex_i, all_regions, uid_to_example>>
    /\ UNCHANGED overwriteOthers

\* one iteration of `for section in sections` on the next section of the file
ReadSection(sec) ==
    /\ ov_pc = "scan"
    /\ TotalLen(ov_md) < MaxSections
    /\ LET st == OverwriteStep([current_uid |-> current_uid,
                                uid_to_example |-> uid_to_example], sec, all_regions)
       IN  /\ current_uid' = st.current_uid
           /\ uid_to_example' = st.uid_to_example
    /\ ov_md' = [ov_md EXCEPT ![Len(ov_md)] = Append(@, sec)]
    /\ UNCHANGED <<ex_files, ex_order, ex_i, all_regions, ov_pc>>
    /\ UNCHANGED overwriteOthers

\* the overwrite files are exhausted: return uid_to_example
OverwriteReturn ==
    /\ ov_pc \in {"files", "scan"}
    /\ ov_pc' = "done"
    /\ UNCHANGED <<ex_files, ex_order, ex_i, all_regions, ov_md, current_uid,
                   uid_to_example>>
    /\ UNCHANGED overwriteOthers

OverwriteNext ==
    \/ LoadExampleFile
    \/ ExamplesLoaded
    \/ OpenOverwriteFile
    \/ \E sec \in SectionDomain : ReadSection(sec)
    \/ OverwriteReturn

(***************************************************************************)
(* load_all_types                                                          *)
(*                                                                         *)
(* A record of a metadata file is [type, uid]: item.get("type", "") and    *)
(* item.get("uid", ""). A file name is a sequence of characters. The       *)
(* example texts are texts as parse_region_tags builds them; "" is the     *)
(* text of one empty line.                                                 *)
(***************************************************************************)

S_toc_yml == <<"t","o","c",".","y","m","l">>

\* Values of the inputs the model enumerates
S_Bar_yml == <<"B","a","r",".","y","m","l">>
S_Foo_yml == <<"F","o","o",".","y","m","l">>

\* the empty string, as a text
EmptyText == <<EmptyLine>>

\* the code points of the characters of the file names
CharCode(c) ==
    CASE c = "." -> 46 [] c = "B" -> 66 [] c = "F" -> 70 [] c = "a" -> 97
      [] c = "c" -> 99 [] c = "l" -> 108 [] c = "m" -> 109 [] c = "o" -> 111
      [] c = "r" -> 114 [] c = "t" -> 116 [] c = "y" -> 121

\* a < b for two strings (Path ordering of two names of one directory)
RECURSIVE StrLess(_, _)
StrLess(a, b) ==
    IF b = << >> THEN FALSE
    ELSE IF a = << >> THEN TRUE
    ELSE IF CharCode(Head(a)) # CharCode(Head(b)) THEN CharCode(Head(a)) < CharCode(Head(b))
    ELSE StrLess(Tail(a), Tail(b))

\* x put at its place in the ascending list srt
RECURSIVE InsertSorted(_, _)
InsertSorted(x, srt) ==
    IF srt = << >> THEN <<x>>
    ELSE IF StrLess(x, Head(srt)) THEN <<x>> \o srt
    ELSE <<Head(srt)>> \o InsertSorted(x, Tail(srt))

\* sorted(paths)
RECURSIVE Sorted(_)
Sorted(paths) ==
    IF paths = << >> THEN << >> ELSE InsertSorted(Head(paths), Sorted(Tail(paths)))

\* examples.get(uid, "")
ExampleGet(ex, uid) == IF uid \in DOMAIN ex THEN ex[uid] ELSE EmptyText

\* MemberItem(uid=..., type_kind=..., example=examples.get(item.get("uid", ""), ""))
MakeMemberItem(item, ex) ==
    [uid |-> item.uid, type_kind |-> item.type, example |-> ExampleGet(ex, item.uid)]

\* mutant of MemberItems: the first record is taken for a member as well
MemberItems_FromFirst(items, ex) ==
    [k \in 1..Len(items) |-> MakeMemberItem(items[k], ex)]

\* for item in items[1:]: ti.members.append(MemberItem(...))
MemberItems(items, ex) ==
    [k \in 1..(Len(items) - 1) |-> MakeMemberItem(items[k + 1], ex)]

\* TypeItem(uid=..., type_kind=kind, ...): no example argument is passed, the
\* field keeps its default ""
MakeTypeItem(items, ex) ==
    [uid |-> items[1].uid, type_kind |-> items[1].type,
     members |-> MemberItems(items, ex), example |-> EmptyText]

\* yml_path.name == "toc.yml"
IsTocFile(path) == path = S_toc_yml

\* not items
NoItems(items) == items = << >>

\* mutant of IsNamespaceFile: a Namespace record anywhere in the file skips it
IsNamespaceFile_Any(items) == \E k \in 1..Len(items) : items[k].type = "Namespace"

\* kind == "Namespace", kind the type of the first record
IsNamespaceFile(items) == items[1].type = "Namespace"

\* bound: number of records of a metadata file
MaxRecords == 3

LoadFileNames == {S_Bar_yml, S_Foo_yml, S_toc_yml}

RecordDomain ==
    { [type |-> "Namespace", uid |-> "N:Sdk"],
      [type |-> "Class", uid |-> "T:Foo"],
      [type |-> "Method", uid |-> "M:Foo.Bar"] }

ItemLists == UNION {[1..n -> RecordDomain] : n \in 0..MaxRecords}

\* what docfx writes to toc.yml: entries with a uid and no type
TocItems == <<[type |-> "", uid |-> "N:Sdk"]>>

\* the directories: any of the three files, toc.yml with its table of contents
ApiDirs ==
    UNION { {d \in [S -> ItemLists \cup {TocItems}] :
                \A n \in S : IF n = S_toc_yml THEN d[n] = TocItems ELSE d[n] \in ItemLists} :
            S \in SUBSET LoadFileNames }

ExampleMaps ==
    { EmptyDict,
      [u \in {"T:Foo", "M:Foo.Bar"} |->
          IF u = "T:Foo" THEN <<Line(<< >>, <<"code", "x">>)>>
          ELSE <<Line(<< >>, <<"code", "y">>)>>] }

LoadIdle ==
    /\ api_dir = EmptyDict
    /\ examples = EmptyDict
    /\ yml_files = << >>
    /\ ld_i = 0
    /\ ld_types = << >>
    /\ ld_pc = "idle"

\* entry of load_all_types: glob yields the files in some order, sorted orders them
LoadInit ==
    /\ api_dir \in ApiDirs
    /\ examples \in ExampleMaps
    /\ \E o \in Orders(DOMAIN api_dir) : yml_files = Sorted(o)
    /\ ld_i = 0
    /\ ld_types = << >>
    /\ ld_pc = "loop"

\* if yml_path.name == "toc.yml": continue
LoadSkipToc ==
    /\ ld_pc = "loop"
    /\ ld_i < Len(yml_files)
    /\ IsTocFile(yml_files[ld_i + 1])
    /\ ld_i' = ld_i + 1
    /\ UNCHANGED <<api_dir, examples, yml_files, ld_types, ld_pc>>
    /\ UNCHANGED loadOthers

\* if not items: continue
LoadSkipEmpty ==
    /\ ld_pc = "loop"
    /\ ld_i < Len(yml_files)
    /\ ~IsTocFile(yml_files[ld_i + 1])
    /\ NoItems(api_dir[yml_files[ld_i + 1]])
    /\ ld_i' = ld_i + 1
    /\ UNCHANGED <<api_dir, examples, yml_files, ld_types, ld_pc>>
    /\ UNCHANGED loadOthers

\* if kind == "Namespace": continue
LoadSkipNamespace ==
    /\ ld_pc = "loop"
    /\ ld_i < Len(yml_files)
    /\ ~IsTocFile(yml_files[ld_i + 1])
    /\ ~NoItems(api_dir[yml_files[ld_i + 1]])
    /\ IsNamespaceFile(api_dir[yml_files[ld_i + 1]])
    /\ ld_i' = ld_i + 1
    /\ UNCHANGED <<api_dir, examples, yml_files, ld_types, ld_pc>>
    /\ UNCHANGED loadOthers

\* the TypeItem of the file and its members are built and appended to types
LoadType ==
    /\ ld_pc = "loop"
    /\ ld_i < Len(yml_files)
    /\ ~IsTocFile(yml_files[ld_i + 1])
    /\ ~NoItems(api_dir[yml_files[ld_i + 1]])
    /\ ~IsNamespaceFile(api_dir[yml_files[ld_i + 1]])
    /\ ld_types' = Append(ld_types, MakeTypeItem(api_dir[yml_files[ld_i + 1]], examples))
    /\ ld_i' = ld_i + 1
    /\ UNCHANGED <<api_dir, examples, yml_files, ld_pc>>
    /\ UNCHANGED loadOthers

\* the files are exhausted: return types
LoadReturn ==
    /\ ld_pc = "loop"
    /\ ld_i = Len(yml_files)
    /\ ld_pc' = "done"
    /\ UNCHANGED <<api_dir, examples, yml_files, ld_i, ld_types>>
    /\ UNCHANGED loadOthers

LoadNext ==
    \/ LoadSkipToc
    \/ LoadSkipEmpty
    \/ LoadSkipNamespace
    \/ LoadType
    \/ LoadReturn

(***************************************************************************)
(* prune-toc.py                                                            *)
(*                                                                         *)
(* The value json.load returns is a tagged tuple:                          *)
(*   <<"null">>  <<"bool", b>>  <<"num", n>>  <<"str", s>>                 *)
(*   <<"list", sequence of values>>                                        *)
(*   <<"obj", function from keys to values>>                               *)
(* json.dump followed by json.load gives the same value back (the keys are *)
(* strings), so the content of the file is kept as the value itself.       *)
(***************************************************************************)

JNull == <<"null">>
JBool(b) == <<"bool", b>>
JNum(n) == <<"num", n>>
JStr(s) == <<"str", s>>
JList(seq) == <<"list", seq>>
JObj(f) == <<"obj", f>>

Kind(v) == v[1]

NoFields == [k \in {} |-> JNull]

\* Python: not v
Falsy(v) ==
    CASE Kind(v) = "null" -> TRUE
      [] Kind(v) = "bool" -> ~v[2]
      [] Kind(v) = "num" -> v[2] = 0
      [] Kind(v) = "str" -> v[2] = ""
      [] Kind(v) = "list" -> v[2] = << >>
      [] Kind(v) = "obj" -> DOMAIN v[2] = {}

\* item.get(key, default) on a dict
Get(item, key, default) ==
    IF key \in DOMAIN item[2] THEN item[2][key] ELSE default

\* item[key] = value
SetField(item, key, value) ==
    JObj([k \in DOMAIN item[2] \cup {key} |-> IF k = key THEN value ELSE item[2][k]])

\* del item[key]
DelField(item, key) == JObj([k \in DOMAIN item[2] \ {key} |-> item[2][k]])

KEEP_MEMBERS_FOR == {"Camunda.Client.CamundaClient"}

\* the outcome of a call: the object as the call left it, and the exception it
\* raised (None when it returned)
Outcome(val, exc) == [val |-> val, exc |-> exc]

\* item.get("type") == "Namespace"
IsNamespace(item) ==
    LET t == Get(item, "type", JNull) IN Kind(t) = "str" /\ t[2] = "Namespace"

RECURSIVE prune(_)
RECURSIVE PruneLoop(_, _)

\* mutant of PruneItem: the allow-list is tested before the Namespace kind
PruneItem_AllowFirst(item) ==
    IF Kind(item) # "obj"
    THEN Outcome(item, "AttributeError")
    ELSE LET uid == Get(item, "topicUid", JStr(""))
             children == Get(item, "items", JNull)
         IN  IF Falsy(children)
             THEN Outcome(item, None)
             ELSE IF Kind(uid) \in {"list", "obj"}
             THEN Outcome(item, "TypeError")
             ELSE IF Kind(uid) = "str" /\ uid[2] \in KEEP_MEMBERS_FOR
             THEN Outcome(item, None)
             ELSE IF IsNamespace(item)
             THEN LET r == prune(children)
                  IN  Outcome(SetField(item, "items", r.val), r.exc)
             ELSE Outcome(SetField(DelField(item, "items"), "leaf", JBool(TRUE)), None)

\* mutant of PruneItem: the children of a Namespace node are not visited
PruneItem_NoRecurse(item) ==
    IF Kind(item) # "obj"
    THEN Outcome(item, "AttributeError")
    ELSE LET uid == Get(item, "topicUid", JStr(""))
             children == Get(item, "items", JNull)
         IN  IF Falsy(children)
             THEN Outcome(item, None)
             ELSE IF IsNamespace(item)
             THEN Outcome(item, None)
             ELSE IF Kind(uid) \in {"list", "obj"}
             THEN Outcome(item, "TypeError")
             ELSE IF Kind(uid) = "str" /\ uid[2] \in KEEP_MEMBERS_FOR
             THEN Outcome(item, None)
             ELSE Outcome(SetField(DelField(item, "items"), "leaf", JBool(TRUE)), None)

\* the body of `for item in items` on one element of a list: item.get raises
\* AttributeError on anything but a dict, and `uid in KEEP_MEMBERS_FOR` raises
\* TypeError on an unhashable uid (a list or a dict)
PruneItem(item) ==
    IF Kind(item) # "obj"
    THEN Outcome(item, "AttributeError")
    ELSE LET uid == Get(item, "topicUid", JStr(""))
             children == Get(item, "items", JNull)
         IN  IF Falsy(children)
             THEN Outcome(item, None)
             ELSE IF IsNamespace(item)
             THEN LET r == prune(children)
                  IN  Outcome(SetField(item, "items", r.val), r.exc)
             ELSE IF Kind(uid) \in {"list", "obj"}
             THEN Outcome(item, "TypeError")
             ELSE IF Kind(uid) = "str" /\ uid[2] \in KEEP_MEMBERS_FOR
             THEN Outcome(item, None)
             ELSE Outcome(SetField(DelField(item, "items"), "leaf", JBool(TRUE)), None)

\* the for loop of prune over a list, from its i-th element on
PruneLoop(seq, i) ==
    IF i > Len(seq)
    THEN Outcome(seq, None)
    ELSE LET r == PruneItem(seq[i])
             seq2 == [seq EXCEPT ![i] = r.val]
         IN  IF r.exc # None THEN Outcome(seq2, r.exc) ELSE PruneLoop(seq2, i + 1)

\* prune(items): the loop runs over the elements of a list; over a non-empty
\* string or dict it yields strings, on which item.get raises AttributeError;
\* a number or True is not iterable (TypeError)
prune(items) ==
    IF Falsy(items)
    THEN Outcome(items, None)
    ELSE CASE Kind(items) = "list" ->
                  LET r == PruneLoop(items[2], 1) IN Outcome(JList(r.val), r.exc)
           [] Kind(items) \in {"str", "obj"} -> Outcome(items, "AttributeError")
           [] Kind(items) \in {"num", "bool"} -> Outcome(items, "TypeError")

\* root = data.get("items", data) if isinstance(data, dict) else data
RootOf(data) == IF Kind(data) = "obj" THEN Get(data, "items", data) ELSE data

\* main on a file whose parsed content is data: the exception that ends the
\* run (None when it returns) and the content of the file after the run; the
\* file is rewritten with data, mutated in place through root, only when prune
\* returned
main(data) ==
    LET r == prune(RootOf(data))
    IN  IF r.exc # None
        THEN Outcome(data, r.exc)
        ELSE IF Kind(data) = "obj" /\ "items" \in DOMAIN data[2]
        THEN Outcome(SetField(data, "items", r.val), None)
        ELSE Outcome(r.val, None)

\* bound: number of nodes of a well-formed table of contents
MaxNodes == 3

\* bound: number of runs of main on the same file
MaxRuns == 2

\* the fields of a node other than its child list
NodeHeads ==
    { [type |-> JStr("Namespace"), topicUid |-> JStr("Camunda.Client")],
      [type |-> JStr("Namespace"), topicUid |-> JStr("Camunda.Client.CamundaClient")],
      [type |-> JStr("Class"), topicUid |-> JStr("Camunda.Client.CamundaClient")],
      [type |-> JStr("Class"), topicUid |-> JStr("Camunda.Client.JobResult")],
      NoFields }

\* a node as the documentation build first writes it: no child list, or an
\* empty one
NewNodes ==
    {JObj(h) : h \in NodeHeads}
        \cup {SetField(JObj(h), "items", JList(<< >>)) : h \in NodeHeads}

\* the child list of a node of a well-formed file
ChildrenOf(node) ==
    IF "items" \in DOMAIN node[2] THEN node[2]["items"][2] ELSE << >>

RECURSIVE CountNodes(_)
\* number of nodes of a list of nodes, descendants included
CountNodes(seq) ==
    IF seq = << >> THEN 0
    ELSE 1 + CountNodes(ChildrenOf(Head(seq))) + CountNodes(Tail(seq))

RECURSIVE RightDepth(_)
\* number of nodes on the path from the last root to its last descendant
RightDepth(seq) ==
    IF seq = << >> THEN 0 ELSE 1 + RightDepth(ChildrenOf(seq[Len(seq)]))

RECURSIVE AddNode(_, _, _)
\* the list with node added as the last child of the d-th node of that path
\* (as the last root when d = 0)
AddNode(seq, d, node) ==
    IF d = 0
    THEN Append(seq, node)
    ELSE LET last == seq[Len(seq)]
         IN  [seq EXCEPT ![Len(seq)] =
                 SetField(last, "items", JList(AddNode(ChildrenOf(last), d - 1, node)))]

\* the list of nodes of a well-formed file, and the file with another list
TocList(data) == IF Kind(data) = "obj" THEN data[2]["items"][2] ELSE data[2]
WithTocList(data, seq) ==
    IF Kind(data) = "obj" THEN SetField(data, "items", JList(seq)) ELSE JList(seq)

\* well-formed files with no node yet: a list, or an object holding one
EmptyTocs == {JList(<< >>), JObj([items |-> JList(<< >>)])}

Member == JObj([type |-> JStr("Method"), topicUid |-> JStr("Camunda.Client.JobResult.Run")])

\* files json.load accepts whose root or fields are not of the expected shape
OtherTocs ==
    { JNull, JNum(7), JStr("toc"), JObj(NoFields),
      JObj([name |-> JStr("toc")]),
      JObj([items |-> JNull]),
      JObj([items |-> JStr("toc")]),
      JList(<<JStr("toc")>>),
      JList(<<JNull>>),
      JList(<<JObj([type |-> JStr("Class"), items |-> JNull])>>),
      JList(<<JObj([type |-> JStr("Class"), items |-> JStr("")])>>),
      JList(<<JObj([type |-> JStr("Class"), items |-> JStr("toc")])>>),
      JList(<<JObj([type |-> JStr("Class"), items |-> JNum(7)])>>),
      JList(<<JObj([type |-> JStr("Namespace"), items |-> JStr("toc")])>>),
      JList(<<JObj([type |-> JStr("Namespace"), items |-> JNum(7)])>>),
      JList(<<JObj([type |-> JStr("Namespace"), items |-> JObj([name |-> JStr("toc")])])>>),
      JList(<<JObj([type |-> JStr("Namespace"), items |-> JList(<<JStr("toc")>>)])>>),
      JList(<<JObj([type |-> JNum(7), topicUid |-> JNum(7), items |-> JList(<<Member>>)])>>),
      JList(<<JObj([type |-> JNull, topicUid |-> JNull, items |-> JList(<<Member>>)])>>),
      JList(<<JObj([type |-> JStr("Class"), topicUid |-> JList(<< >>),
                    items |-> JList(<<Member>>)])>>),
      JList(<<JObj([type |-> JStr("Namespace"), topicUid |-> JList(<< >>),
                    items |-> JList(<<Member>>)])>>) }

PruneIdle ==
    /\ toc_in = JNull
    /\ toc_file = JNull
    /\ toc_prev = JNull
    /\ pr_runs = 0
    /\ pr_exc = None
    /\ pr_pc = "idle"

\* toc.json before main runs: a well-formed file the documentation build is
\* still writing, or one of the other files
PruneInit ==
    /\ \/ toc_in \in EmptyTocs /\ pr_pc = "build"
       \/ toc_in \in OtherTocs /\ pr_pc = "ready"
    /\ toc_file = toc_in
    /\ toc_prev = toc_in
    /\ pr_runs = 0
    /\ pr_exc = None

\* the documentation build writes one more node into a well-formed file
TocWriteNode(node, d) ==
    /\ pr_pc = "build"
    /\ CountNodes(TocList(toc_in)) < MaxNodes
    /\ d <= RightDepth(TocList(toc_in))
    /\ toc_in' = WithTocList(toc_in, AddNode(TocList(toc_in), d, node))
    /\ toc_file' = toc_in'
    /\ toc_prev' = toc_in'
    /\ UNCHANGED <<pr_runs, pr_exc, pr_pc>>
    /\ UNCHANGED pruneOthers

\* a run of main that returns: the file is rewritten
PruneMainReturns ==
    /\ pr_pc \in {"build", "ready"}
    /\ pr_runs < MaxRuns
    /\ main(toc_file).exc = None
    /\ toc_prev' = toc_file
    /\ toc_file' = main(toc_file).val
    /\ pr_exc' = None
    /\ pr_runs' = pr_runs + 1
    /\ pr_pc' = "ready"
    /\ UNCHANGED toc_in
    /\ UNCHANGED pruneOthers

\* a run of main that an exception ends before the file is opened for writing
PruneMainRaises ==
    /\ pr_pc \in {"build", "ready"}
    /\ pr_runs < MaxRuns
    /\ main(toc_file).exc # None
    /\ toc_prev' = toc_file
    /\ toc_file' = toc_file
    /\ pr_exc' = main(toc_file).exc
    /\ pr_runs' = pr_runs + 1
    /\ pr_pc' = "ready"
    /\ UNCHANGED toc_in
    /\ UNCHANGED pruneOthers

PruneNext ==
    \/ \E node \in NewNodes, d \in 0..MaxNodes : TocWriteNode(node, d)
    \/ PruneMainReturns
    \/ PruneMainRaises

(***************************************************************************)
(* inject_tech_preview_banner                                              *)
(*                                                                         *)
(* A page is a sequence of characters. The banner keeps each of its lines  *)
(* as one element, between its newline characters.                         *)
(***************************************************************************)

TECH_PREVIEW_BANNER ==
    << "\n", ":::caution Technical Preview", "\n",
       "The C# SDK is a **technical preview** [...] without following semver.", "\n",
       ":::", "\n" >>

\* the class \s of the regular expression
IsWhitespace(c) == c \in {" ", "\t", "\n", "\r"}

\* ^ under re.MULTILINE: the start of the string or the position after a newline
AtLineStart(content, i) == i = 1 \/ content[i - 1] = "\n"

\* the last position of the line the position p is on ($ under re.MULTILINE
\* matches after it)
LineEnd(content, p) ==
    CHOOSE e \in p..Len(content) :
        /\ \A k \in p..e : content[k] # "\n"
        /\ e = Len(content) \/ content[e + 1] = "\n"

\* the positions where .+ can start in a match of #\s+.+$ that starts at i: a
\* non-empty run of whitespace lies between the # and the position, and the
\* character at the position is not a newline
BodyStarts(content, i) ==
    {p \in (i + 2)..Len(content) :
        /\ \A k \in (i + 1)..(p - 1) : IsWhitespace(content[k])
        /\ content[p] # "\n"}

\* m.end() of the match of ^#\s+.+$ that starts at i: \s+ is greedy, so .+
\* starts at the last position where it can, and runs to the end of that line
MatchEnd(content, i) ==
    LET p == CHOOSE q \in BodyStarts(content, i) : \A r \in BodyStarts(content, i) : r <= q
    IN  LineEnd(content, p)

\* the positions where ^#\s+.+$ matches
MatchStarts(content) ==
    {i \in 1..Len(content) :
        AtLineStart(content, i) /\ content[i] = "#" /\ BodyStarts(content, i) # {}}

\* re.search returns the leftmost match; the banner goes in at its end
inject_tech_preview_banner(content) ==
    IF MatchStarts(content) = {}
    THEN content
    ELSE LET start == CHOOSE i \in MatchStarts(content) : \A j \in MatchStarts(content) : i <= j
             pos == MatchEnd(content, start)
         IN  SubSeq(content, 1, pos) \o <<"\n">> \o TECH_PREVIEW_BANNER
                 \o SubSeq(content, pos + 1, Len(content))

\* bound: number of characters of a page
MaxContent == 5

\* the characters a page is made of
ContentChars == {"#", " ", "\n", "x"}

BannerIdle ==
    /\ bn_content = << >>
    /\ bn_result = << >>
    /\ bn_pc = "idle"

\* a page with nothing in it yet
BannerInit ==
    /\ bn_content = << >>
    /\ bn_result = << >>
    /\ bn_pc = "input"

\* the page gets one more character
BannerWrite(c) ==
    /\ bn_pc = "input"
    /\ Len(bn_content) < MaxContent
    /\ bn_content' = Append(bn_content, c)
    /\ UNCHANGED <<bn_result, bn_pc>>
    /\ UNCHANGED bannerOthers

\* the call inject_tech_preview_banner(content)
BannerInject ==
    /\ bn_pc = "input"
    /\ bn_result' = inject_tech_preview_banner(bn_content)
    /\ bn_pc' = "done"
    /\ UNCHANGED bn_content
    /\ UNCHANGED bannerOthers

BannerNext ==
    \/ \E c \in ContentChars : BannerWrite(c)
    \/ BannerInject

(***************************************************************************)
(* generate_camunda_client: the Methods section, and _method_group         *)
(*                                                                         *)
(* A method name and a key of the table are sequences of characters; group *)
(* labels are only compared for equality.                                  *)
(***************************************************************************)

S_Async == <<"A","s","y","n","c">>

GROUP_PREFIXES ==
    << <<<<"P","r","o","c","e","s","s","I","n","s","t","a","n","c","e">>, "Process Instances">>,
       <<<<"P","r","o","c","e","s","s","D","e","f","i","n","i","t","i","o","n">>, "Process Definitions">>,
       <<<<"J","o","b">>, "Jobs">>,
       <<<<"U","s","e","r","T","a","s","k">>, "User Tasks">>,
       <<<<"D","e","c","i","s","i","o","n","D","e","f","i","n","i","t","i","o","n">>, "Decision Definitions">>,
       <<<<"D","e","c","i","s","i","o","n","R","e","q","u","i","r","e","m","e","n","t","s">>, "Decision Requirements">>,
       <<<<"D","e","c","i","s","i","o","n","I","n","s","t","a","n","c","e">>, "Decision Instances">>,
       <<<<"D","e","c","i","s","i","o","n">>, "Decisions">>,
       <<<<"I","n","c","i","d","e","n","t">>, "Incidents">>,
       <<<<"V","a","r","i","a","b","l","e">>, "Variables">>,
       <<<<"F","l","o","w","N","o","d","e">>, "Flow Nodes">>,
       <<<<"E","l","e","m","e","n","t">>, "Elements">>,
       <<<<"M","e","s","s","a","g","e">>, "Messages">>,
       <<<<"S","i","g","n","a","l">>, "Signals">>,
       <<<<"R","e","s","o","u","r","c","e">>, "Resources">>,
       <<<<"D","e","p","l","o","y">>, "Deployments">>,
       <<<<"T","o","p","o","l","o","g","y">>, "Cluster">>,
       <<<<"A","u","t","h","e","n","t","i","c","a","t","i","o","n">>, "Cluster">>,
       <<<<"C","l","o","c","k">>, "Cluster">>,
       <<<<"B","a","c","k","p","r","e","s","s","u","r","e">>, "Cluster">>,
       <<<<"L","i","c","e","n","s","e">>, "Cluster">>,
       <<<<"W","o","r","k","e","r">>, "Job Workers">>,
       <<<<"R","u","n","W","o","r","k","e","r","s">>, "Job Workers">>,
       <<<<"T","e","n","a","n","t">>, "Tenants">>,
       <<<<"R","o","l","e">>, "Roles">>,
       <<<<"G","r","o","u","p">>, "Groups">>,
       <<<<"M","a","p","p","i","n","g">>, "Mappings">>,
       <<<<"A","u","t","h","o","r","i","z","a","t","i","o","n">>, "Authorizations">>,
       <<<<"A","u","d","i","t","L","o","g">>, "Audit Logs">>,
       <<<<"B","a","t","c","h","O","p","e","r","a","t","i","o","n">>, "Batch Operations">>,
       <<<<"D","o","c","u","m","e","n","t","L","i","n","k">>, "Documents">>,
       <<<<"D","o","c","u","m","e","n","t">>, "Documents">>,
       <<<<"A","d","H","o","c","S","u","b","P","r","o","c","e","s","s">>, "Ad Hoc Sub-Processes">> >>

\* re.sub(r"Async$", "", name): $ matches at the end of the string and before
\* a newline that ends it
StripAsync(name) ==
    IF StrEndsWith(name, S_Async)
    THEN SubSeq(name, 1, Len(name) - 5)
    ELSE IF StrEndsWith(name, S_Async \o <<"\n">>)
    THEN SubSeq(name, 1, Len(name) - 6) \o <<"\n">>
    ELSE name

RECURSIVE GroupFrom(_, _)
\* the for loop over GROUP_PREFIXES from its k-th entry on
GroupFrom(base, k) ==
    IF k > Len(GROUP_PREFIXES)
    THEN "Other"
    ELSE IF StrContains(base, GROUP_PREFIXES[k][1])
    THEN GROUP_PREFIXES[k][2]
    ELSE GroupFrom(base, k + 1)

RECURSIVE GroupBackFrom(_, _)
GroupBackFrom(base, k) ==
    IF k < 1
    THEN "Other"
    ELSE IF StrContains(base, GROUP_PREFIXES[k][1])
    THEN GROUP_PREFIXES[k][2]
    ELSE GroupBackFrom(base, k - 1)

\* mutant of method_group: the last entry that matches gives the group
method_group_LastMatch(name) == GroupBackFrom(StripAsync(name), Len(GROUP_PREFIXES))

\* _method_group(name)
method_group(name) == GroupFrom(StripAsync(name), 1)

\* groups.setdefault(group, []).append(m) on the insertion-ordered dict
SetDefaultAppend(d, group, m) ==
    IF \E k \in 1..Len(d) : d[k][1] = group
    THEN [k \in 1..Len(d) |-> IF d[k][1] = group THEN <<group, Append(d[k][2], m)>> ELSE d[k]]
    ELSE Append(d, <<group, <<m>>>>)

\* bound: number of methods of the client type
MaxMethods == 3

\* the method names of the client type
MethodNames ==
    { <<"C","r","e","a","t","e","J","o","b","W","o","r","k","e","r">>,
      <<"R","u","n","W","o","r","k","e","r","s">>,
      <<"G","e","t","D","e","c","i","s","i","o","n","A","s","y","n","c">>,
      <<"G","e","t","D","e","c","i","s","i","o","n","I","n","s","t","a","n","c","e","A","s","y","n","c">>,
      <<"P","i","n","C","l","o","c","k","A","s","y","n","c">>,
      <<"G","e","t","T","o","p","o","l","o","g","y","A","s","y","n","c">>,
      <<"D","i","s","p","o","s","e","A","s","y","n","c">>,
      <<"G","e","t","(","J","o","b","K","e","y",")">> }

MethodsIdle ==
    /\ methods = << >>
    /\ groups = << >>
    /\ mg_i = 0
    /\ mg_out = << >>
    /\ mg_pc = "idle"

\* before the first loop: groups = {}
MethodsInit ==
    /\ methods = << >>
    /\ groups = << >>
    /\ mg_i = 0
    /\ mg_out = << >>
    /\ mg_pc = "group"

\* one iteration of `for m in methods` on the next method, named name
GroupMethod(name) ==
    /\ mg_pc = "group"
    /\ Len(methods) < MaxMethods
    /\ methods' = Append(methods, name)
    /\ groups' = SetDefaultAppend(groups, method_group(name), Len(methods) + 1)
    /\ UNCHANGED <<mg_i, mg_out, mg_pc>>
    /\ UNCHANGED methodsOthers

\* the first loop ends
GroupingDone ==
    /\ mg_pc = "group"
    /\ mg_pc' = "emit"
    /\ UNCHANGED <<methods, groups, mg_i, mg_out>>
    /\ UNCHANGED methodsOthers

\* one iteration of `for group_name, group_methods in groups.items()`
EmitGroup ==
    /\ mg_pc = "emit"
    /\ mg_i < Len(groups)
    /\ mg_i' = mg_i + 1
    /\ mg_out' = mg_out \o <<<<"###", groups[mg_i + 1][1]>>>>
                    \o [k \in 1..Len(groups[mg_i + 1][2]) |->
                           <<"####", methods[groups[mg_i + 1][2][k]]>>]
    /\ UNCHANGED <<methods, groups, mg_pc>>
    /\ UNCHANGED methodsOthers

\* the second loop ends: return out
EmitDone ==
    /\ mg_pc = "emit"
    /\ mg_i = Len(groups)
    /\ mg_pc' = "done"
    /\ UNCHANGED <<methods, groups, mg_i, mg_out>>
    /\ UNCHANGED methodsOthers

MethodsNext ==
    \/ \E name \in MethodNames : GroupMethod(name)
    \/ GroupingDone
    \/ EmitGroup
    \/ EmitDone

(***************************************************************************)
(* rewrite_camunda_docs_links and _rewrite_landing_links                   *)
(*                                                                         *)
(* A page is a sequence of tokens: the characters [ ] ( ) / and newline,   *)
(* and the strings the pattern and the override table look for, each as    *)
(* one token; any other token is text.                                     *)
(***************************************************************************)

DEPLOYMENT_DEPTH == 3

LANDING_PAGE_DEPTH == 2

\* https?://docs\.camunda\.io/docs/
DocsHosts == {"https://docs.camunda.io/docs/", "http://docs.camunda.io/docs/"}

\* _URL_PATH_OVERRIDES, applied by url_path.replace(old, new) for every entry
UrlPathOverride(path) ==
    [k \in 1..Len(path) |->
        IF path[k] = "camunda-api-rest" THEN "orchestration-cluster-api-rest" ELSE path[k]]

\* a token without the slashes it ends with
TokenRStrip(tok) ==
    CASE tok = "/" -> ""
      [] tok = "next/" -> "next"
      [] tok = "https://docs.camunda.io/docs/" -> "https://docs.camunda.io/docs"
      [] tok = "http://docs.camunda.io/docs/" -> "http://docs.camunda.io/docs"
      [] tok = "https://camunda.com/" -> "https://camunda.com"
      [] OTHER -> tok

RECURSIVE RStripSlash(_)
\* m.group(2).rstrip("/")
RStripSlash(path) ==
    IF path = << >>
    THEN << >>
    ELSE LET last == path[Len(path)]
             front == SubSeq(path, 1, Len(path) - 1)
         IN  IF TokenRStrip(last) = "" THEN RStripSlash(front)
             ELSE Append(front, TokenRStrip(last))

\* the first position from i on that holds one of the tokens, 0 when none does
FirstOf(content, i, toks) ==
    IF \E q \in i..Len(content) : content[q] \in toks
    THEN CHOOSE q \in i..Len(content) :
             content[q] \in toks /\ \A r \in i..(q - 1) : content[r] \notin toks
    ELSE 0

NoMatch == [end |-> 0, text |-> << >>, path |-> << >>]

\* the match of _DOCS_LINK_RE that starts at position i: [^\]]* runs to the
\* first ], (?:next/)? takes a next/ that follows the host, and (.*?) runs to
\* the first ) and crosses no newline
LinkMatchAt(content, i) ==
    IF content[i] # "["
    THEN NoMatch
    ELSE LET k == FirstOf(content, i + 1, {"]"}) IN
         IF k = 0 \/ k + 2 > Len(content) THEN NoMatch
         ELSE IF content[k + 1] # "(" \/ content[k + 2] \notin DocsHosts THEN NoMatch
         ELSE LET ps == IF k + 3 <= Len(content) /\ content[k + 3] = "next/"
                        THEN k + 4 ELSE k + 3
                  q == FirstOf(content, ps, {")", "\n"})
              IN  IF q = 0 THEN NoMatch
                  ELSE IF content[q] = "\n" THEN NoMatch
                  ELSE [end |-> q,
                        text |-> SubSeq(content, i + 1, k - 1),
                        path |-> SubSeq(content, ps, q - 1)]

\* mutant of LinkReplacement: the slashes that end the path are kept
LinkReplacement_KeepSlash(m, depth) ==
    <<"[">> \o m.text \o <<"]", "(">> \o [k \in 1..depth |-> "../"]
        \o UrlPathOverride(m.path) \o <<".md", ")">>

\* _rewrite_match(m) and _replace(m): f"[{text}]({prefix}{url_path}.md)" with
\* prefix = "../" * depth
LinkReplacement(m, depth) ==
    <<"[">> \o m.text \o <<"]", "(">> \o [k \in 1..depth |-> "../"]
        \o UrlPathOverride(RStripSlash(m.path)) \o <<".md", ")">>

RECURSIVE DocsLinkSub(_, _, _)
\* pattern.sub(replacement, content) from position i on: the matches are taken
\* from left to right and do not overlap
DocsLinkSub(content, i, depth) ==
    IF i > Len(content)
    THEN << >>
    ELSE LET m == LinkMatchAt(content, i)
         IN  IF m.end = 0
             THEN <<content[i]>> \o DocsLinkSub(content, i + 1, depth)
             ELSE LinkReplacement(m, depth) \o DocsLinkSub(content, m.end + 1, depth)

rewrite_camunda_docs_links(content) == DocsLinkSub(content, 1, DEPLOYMENT_DEPTH)

rewrite_landing_links(content) == DocsLinkSub(content, 1, LANDING_PAGE_DEPTH)

\* bound: number of pieces a page is written in
MaxPieces == 4

\* the pieces a page is made of
ContentPieces ==
    { <<"[", "t", "]", "(", "https://docs.camunda.io/docs/">>,
      <<"[", "u", "]", "(", "http://docs.camunda.io/docs/", "next/">>,
      <<"[", "v", "]", "(", "https://camunda.com/">>,
      <<"p">>,
      <<"/">>,
      <<"camunda-api-rest">>,
      <<")">> }

LinksIdle ==
    /\ lk_content = << >>
    /\ lk_n = 0
    /\ lk_api = << >>
    /\ lk_landing = << >>
    /\ lk_pc = "idle"

\* a page with nothing in it yet
LinksInit ==
    /\ lk_content = << >>
    /\ lk_n = 0
    /\ lk_api = << >>
    /\ lk_landing = << >>
    /\ lk_pc = "input"

\* the page gets one more piece
LinksWrite(piece) ==
    /\ lk_pc = "input"
    /\ lk_n < MaxPieces
    /\ lk_content' = lk_content \o piece
    /\ lk_n' = lk_n + 1
    /\ UNCHANGED <<lk_api, lk_landing, lk_pc>>
    /\ UNCHANGED linksOthers

\* the call rewrite_camunda_docs_links(content), as main makes it on a page of
\* the API reference
RewriteDocsLinks ==
    /\ lk_pc = "input"
    /\ lk_api' = rewrite_camunda_docs_links(lk_content)
    /\ lk_pc' = "api"
    /\ UNCHANGED <<lk_content, lk_n, lk_landing>>
    /\ UNCHANGED linksOthers

\* the call _rewrite_landing_links(content), as generate_landing_page makes it,
\* on the same content
RewriteLandingLinks ==
    /\ lk_pc = "api"
    /\ lk_landing' = rewrite_landing_links(lk_content)
    /\ lk_pc' = "done"
    /\ UNCHANGED <<lk_content, lk_n, lk_api>>
    /\ UNCHANGED linksOthers

LinksNext ==
    \/ \E piece \in ContentPieces : LinksWrite(piece)
    \/ RewriteDocsLinks
    \/ RewriteLandingLinks

(***************************************************************************)
(* generate-docusaurus-md.py: main                                         *)
(***************************************************************************)

\* the keys of generators, in insertion order
GENERATORS ==
    << "api-reference/index.md", "api-reference/camunda-client.md",
       "api-reference/configuration.md", "api-reference/runtime.md",
       "api-reference/models.md", "api-reference/enums.md", "api-reference/keys.md" >>

SIDEBAR_PATH == "api-reference/sidebar.js"

LANDING_PATH == "csharp-sdk.md"

\* mutant of WritesLanding: the landing page is written in every run
WritesLanding_Always(readme) == TRUE

\* if README_PATH.exists()
WritesLanding(readme) == readme

\* output files a former run may have left
StaleFiles == {"api-reference/keys.md", "api-reference/sidebar.js", "csharp-sdk.md"}

MainIdle ==
    /\ api_exists = FALSE
    /\ metadata_ok = FALSE
    /\ readme_exists = FALSE
    /\ out_files = {}
    /\ written = << >>
    /\ exit_status = None
    /\ gn_pc = "idle"

\* the start of a run
MainInit ==
    /\ api_exists \in BOOLEAN
    /\ metadata_ok \in BOOLEAN
    /\ readme_exists \in BOOLEAN
    /\ out_files \in SUBSET StaleFiles
    /\ written = << >>
    /\ exit_status = None
    /\ gn_pc = "start"

\* API_DIR is missing: the error is printed and the run exits with status 1
MainNoApiDir ==
    /\ gn_pc = "start"
    /\ ~api_exists
    /\ exit_status' = 1
    /\ gn_pc' = "exited"
    /\ UNCHANGED <<api_exists, metadata_ok, readme_exists, out_files, written>>
    /\ UNCHANGED mainOthers

\* load_overwrite_examples or load_all_types raises (yaml.safe_load on a file
\* that is not YAML): the uncaught exception ends the run with status 1
MainLoadRaises ==
    /\ gn_pc = "start"
    /\ api_exists
    /\ ~metadata_ok
    /\ exit_status' = 1
    /\ gn_pc' = "exited"
    /\ UNCHANGED <<api_exists, metadata_ok, readme_exists, out_files, written>>
    /\ UNCHANGED mainOthers

\* the examples and types are loaded and classified, OUTPUT_DIR is made
MainLoad ==
    /\ gn_pc = "start"
    /\ api_exists
    /\ metadata_ok
    /\ gn_pc' = "pages"
    /\ UNCHANGED <<api_exists, metadata_ok, readme_exists, out_files, written, exit_status>>
    /\ UNCHANGED mainOthers

\* one iteration of `for filename, gen_fn in generators.items()`
MainWritePage ==
    /\ gn_pc = "pages"
    /\ Len(written) < Len(GENERATORS)
    /\ written' = Append(written, GENERATORS[Len(written) + 1])
    /\ out_files' = out_files \cup {GENERATORS[Len(written) + 1]}
    /\ gn_pc' = IF Len(written) + 1 = Len(GENERATORS) THEN "sidebar" ELSE "pages"
    /\ UNCHANGED <<api_exists, metadata_ok, readme_exists, exit_status>>
    /\ UNCHANGED mainOthers

\* sidebar_path.write_text(generate_sidebar())
MainWriteSidebar ==
    /\ gn_pc = "sidebar"
    /\ written' = Append(written, SIDEBAR_PATH)
    /\ out_files' = out_files \cup {SIDEBAR_PATH}
    /\ gn_pc' = "landing"
    /\ UNCHANGED <<api_exists, metadata_ok, readme_exists, exit_status>>
    /\ UNCHANGED mainOthers

\* the readme exists: the landing page is written, and the run ends
MainWriteLanding ==
    /\ gn_pc = "landing"
    /\ WritesLanding(readme_exists)
    /\ written' = Append(written, LANDING_PATH)
    /\ out_files' = out_files \cup {LANDING_PATH}
    /\ exit_status' = 0
    /\ gn_pc' = "exited"
    /\ UNCHANGED <<api_exists, metadata_ok, readme_exists>>
    /\ UNCHANGED mainOthers

\* the readme is missing: a warning is printed, and the run ends
MainSkipLanding ==
    /\ gn_pc = "landing"
    /\ ~WritesLanding(readme_exists)
    /\ exit_status' = 0
    /\ gn_pc' = "exited"
    /\ UNCHANGED <<api_exists, metadata_ok, readme_exists, out_files, written>>
    /\ UNCHANGED mainOthers

MainNext ==
    \/ MainNoApiDir
    \/ MainLoadRaises
    \/ MainLoad
    \/ MainWritePage
    \/ MainWriteSidebar
    \/ MainWriteLanding
    \/ MainSkipLanding

(***************************************************************************)
(* Specifications                                                          *)
(***************************************************************************)

InitClassify == ClassifyInit /\ RegionIdle /\ OverwriteIdle /\ LoadIdle /\ PruneIdle /\ BannerIdle /\ MethodsIdle /\ LinksIdle /\ MainIdle

SpecClassify == InitClassify /\ [][ClassifyNext]_vars

InitRegions == RegionInit /\ ClassifyIdle /\ OverwriteIdle /\ LoadIdle /\ PruneIdle /\ BannerIdle /\ MethodsIdle /\ LinksIdle /\ MainIdle

SpecRegions == InitRegions /\ [][RegionNext]_vars

InitOverwrite == OverwriteInit /\ ClassifyIdle /\ RegionIdle /\ LoadIdle /\ PruneIdle /\ BannerIdle /\ MethodsIdle /\ LinksIdle /\ MainIdle

SpecOverwrite == InitOverwrite /\ [][OverwriteNext]_vars

InitLoad == LoadInit /\ ClassifyIdle /\ RegionIdle /\ OverwriteIdle /\ PruneIdle /\ BannerIdle /\ MethodsIdle /\ LinksIdle /\ MainIdle

SpecLoad == InitLoad /\ [][LoadNext]_vars

InitPrune == PruneInit /\ ClassifyIdle /\ RegionIdle /\ OverwriteIdle /\ LoadIdle /\ BannerIdle /\ MethodsIdle /\ LinksIdle /\ MainIdle

SpecPrune == InitPrune /\ [][PruneNext]_vars

InitBanner == BannerInit /\ ClassifyIdle /\ RegionIdle /\ OverwriteIdle /\ LoadIdle /\ PruneIdle /\ MethodsIdle /\ LinksIdle /\ MainIdle

SpecBanner == InitBanner /\ [][BannerNext]_vars

InitMethods == MethodsInit /\ ClassifyIdle /\ RegionIdle /\ OverwriteIdle /\ LoadIdle /\ PruneIdle /\ BannerIdle /\ LinksIdle /\ MainIdle

SpecMethods == InitMethods /\ [][MethodsNext]_vars

InitLinks == LinksInit /\ ClassifyIdle /\ RegionIdle /\ OverwriteIdle /\ LoadIdle /\ PruneIdle /\ BannerIdle /\ MethodsIdle /\ MainIdle

SpecLinks == InitLinks /\ [][LinksNext]_vars

InitMain == MainInit /\ ClassifyIdle /\ RegionIdle /\ OverwriteIdle /\ LoadIdle /\ PruneIdle /\ BannerIdle /\ MethodsIdle /\ LinksIdle

SpecMain == InitMain /\ [][MainNext]_vars

(***************************************************************************)
(* Claims about classify_types                                             *)
(***************************************************************************)

\* the TypeItem at position i of the input is an element of pages[b]
InPage(i, b) == \E k \in 1..Len(pages[b]) : pages[b][k] = i

\* number of places, over all six buckets, that hold input position i
Occurrences(i) ==
    Cardinality({bk \in UNION {{b} \X (1..Len(pages[b])) : b \in Buckets} :
                    pages[bk[1]][bk[2]] = i})

RECURSIVE SumLen(_, _)
SumLen(p, k) == IF k = 0 THEN 0 ELSE Len(p[PageNames[k]]) + SumLen(p, k - 1)

HasMarker(s) == StrContains(s, S_Runtime)

RuleA(t) == t.name \in CLIENT_TYPES
RuleB(t) == t.name \in CONFIGURATION_TYPES
RuleC(t) == t.type_kind = "Enum"
RuleD(t) == t.type_kind = "Struct" /\ StrEndsWith(t.name, S_Key)
NoRuleAtoD(t) == ~RuleA(t) /\ ~RuleB(t) /\ ~RuleC(t) /\ ~RuleD(t)

\* C1: every TypeItem visited by classify_types is held exactly once, in exactly
\* one of the six buckets; the buckets hold nothing else; their sizes sum to the
\* number of visited items; and two items with equal fields are in the same bucket.
C1_Partition ==
    /\ DOMAIN pages = Buckets
    /\ \A i \in 1..Len(cl_types) : Occurrences(i) = 1
    /\ \A b \in Buckets : \A k \in 1..Len(pages[b]) : pages[b][k] \in 1..Len(cl_types)
    /\ SumLen(pages, Len(PageNames)) = Len(cl_types)
    /\ \A i, j \in 1..Len(cl_types) :
          cl_types[i] = cl_types[j] => \A b \in Buckets : InPage(i, b) <=> InPage(j, b)

\* C1 witness: a finished classification of a full-length input whose items
\* went to two different buckets (enums and keys)
C1_Witness ==
    /\ cl_pc = "done"
    /\ Len(cl_types) = MaxTypes
    /\ Len(pages["enums"]) = 1
    /\ Len(pages["keys"]) = 1

\* C2: the rules are applied in the fixed order a..f and the first rule that
\* matches decides: client names -> camunda-client; else configuration names ->
\* configuration; else Enum -> enums; else Struct named ...Key -> keys; else the
\* type goes to runtime or models, to runtime when its namespace has the marker
\* and to models when neither namespace nor parent has it.
C2_Precedence ==
    \A i \in 1..Len(cl_types) :
        LET t == cl_types[i] IN
        /\ RuleA(t) => InPage(i, "camunda-client")
        /\ (~RuleA(t) /\ RuleB(t)) => InPage(i, "configuration")
        /\ (~RuleA(t) /\ ~RuleB(t) /\ RuleC(t)) => InPage(i, "enums")
        /\ (~RuleA(t) /\ ~RuleB(t) /\ ~RuleC(t) /\ RuleD(t)) => InPage(i, "keys")
        /\ NoRuleAtoD(t) => (InPage(i, "runtime") \/ InPage(i, "models"))
        /\ (NoRuleAtoD(t) /\ HasMarker(t.namespace)) => InPage(i, "runtime")
        /\ (NoRuleAtoD(t) /\ ~HasMarker(t.namespace) /\ ~HasMarker(t.parent))
              => InPage(i, "models")

\* C2 witness: an Enum whose name is a configuration name sits in configuration
\* and a Struct named JobKey of a Runtime namespace sits in keys
C2_Witness ==
    /\ cl_pc = "done"
    /\ \E i \in 1..Len(cl_types) :
          /\ cl_types[i].type_kind = "Enum"
          /\ cl_types[i].name = S_ValidationMode
          /\ InPage(i, "configuration")
    /\ \E j \in 1..Len(cl_types) :
          /\ cl_types[j].type_kind = "Struct"
          /\ cl_types[j].name = S_JobKey
          /\ HasMarker(cl_types[j].namespace)
          /\ InPage(j, "keys")

\* C3 (as claimed): a type matching none of the rules a..d is in runtime whenever
\* its namespace or its parent contains the marker 'Runtime'
C3_Original ==
    \A i \in 1..Len(cl_types) :
        LET t == cl_types[i] IN
        (NoRuleAtoD(t) /\ (HasMarker(t.namespace) \/ HasMarker(t.parent)))
            => InPage(i, "runtime")

\* C3 (amended): a type matching none of the rules a..d is in runtime exactly when
\* its namespace contains the marker, or its namespace is empty and its parent
\* contains the marker; the parent is not looked at when the namespace is not empty.
C3_RuntimeMarker ==
    \A i \in 1..Len(cl_types) :
        LET t == cl_types[i] IN
        NoRuleAtoD(t) =>
            ( InPage(i, "runtime") <=>
                \/ HasMarker(t.namespace)
                \/ (t.namespace = S_Empty /\ HasMarker(t.parent)) )

\* C3 witness: a type without namespace went to runtime through its parent, and a
\* type whose non-empty namespace lacks the marker went to models although its
\* parent has the marker
C3_Witness ==
    /\ cl_pc = "done"
    /\ \E i \in 1..Len(cl_types) :
          /\ NoRuleAtoD(cl_types[i])
          /\ cl_types[i].namespace = S_Empty
          /\ HasMarker(cl_types[i].parent)
          /\ InPage(i, "runtime")
    /\ \E j \in 1..Len(cl_types) :
          /\ NoRuleAtoD(cl_types[j])
          /\ cl_types[j].namespace # S_Empty
          /\ ~HasMarker(cl_types[j].namespace)
          /\ HasMarker(cl_types[j].parent)
          /\ InPage(j, "models")

(***************************************************************************)
(* Claims about parse_region_tags                                          *)
(***************************************************************************)

\* line i is a start marker and line j the first end marker of the same name
\* after it, with no start marker in between
ValidPair(i, j) ==
    /\ i \in 1..Len(rt_text) /\ j \in 1..Len(rt_text) /\ i < j
    /\ IsOpen(rt_text[i])
    /\ IsClose(rt_text[j])
    /\ TagOf(rt_text[i]) = TagOf(rt_text[j])
    /\ \A k \in (i + 1)..(j - 1) :
          /\ ~IsOpen(rt_text[k])
          /\ ~(IsClose(rt_text[k]) /\ TagOf(rt_text[k]) = TagOf(rt_text[i]))

\* the pair (i, j) is the last pair of its name in the file
LastPair(i, j) ==
    /\ ValidPair(i, j)
    /\ ~\E i2 \in (j + 1)..Len(rt_text), j2 \in (j + 1)..Len(rt_text) :
          ValidPair(i2, j2) /\ TagOf(rt_text[i2]) = TagOf(rt_text[i])

NonBlank(txt) == {k \in 1..Len(txt) : ~IsBlank(txt[k])}

\* got is src with the common leading whitespace of its non-blank lines removed:
\* same lines in the same order, one margin taken off every non-blank line, and
\* nothing common left in front of them
IsDedentOf(got, src) ==
    /\ Len(got) = Len(src)
    /\ \A k \in 1..Len(src) :
          IF IsBlank(src[k]) THEN got[k] = EmptyLine ELSE got[k].body = src[k].body
    /\ NonBlank(src) # {} =>
          LET k0 == CHOOSE k \in NonBlank(src) : TRUE IN
          /\ \E q \in 0..Len(src[k0].indent) :
                \A k \in NonBlank(src) :
                    src[k].indent = SubSeq(src[k0].indent, 1, q) \o got[k].indent
          /\ \/ \E k \in NonBlank(src) : got[k].indent = << >>
             \/ \E k1, k2 \in NonBlank(src) : got[k1].indent[1] # got[k2].indent[1]

\* C6: for every region name whose start marker is followed by an end marker of
\* the same name with no start marker in between (the last such pair when the
\* file has several for one name), regions maps the name to exactly the lines
\* strictly between the two markers, in order, with their common leading
\* whitespace removed; no marker line of the pair and no line outside it is in.
C6_RegionContent ==
    \A i \in 1..Len(rt_text), j \in 1..Len(rt_text) :
        LastPair(i, j) =>
            /\ TagOf(rt_text[i]) \in DOMAIN regions
            /\ IsDedentOf(regions[TagOf(rt_text[i])],
                          JoinLines(SubSeq(rt_text, i + 1, j - 1)))

\* C6 witness: a parsed file with a closed region of at least two lines from
\* which a non-empty margin was removed
C6_Witness ==
    /\ rt_pc = "done"
    /\ \E i \in 1..Len(rt_text), j \in 1..Len(rt_text) :
          /\ LastPair(i, j)
          /\ j >= i + 3
          /\ TagOf(rt_text[i]) \in DOMAIN regions
          /\ \E k \in 1..(j - i - 1) :
                /\ ~IsBlank(rt_text[i + k])
                /\ regions[TagOf(rt_text[i])][k].indent # rt_text[i + k].indent
          /\ \E k \in 1..(j - i - 1) :
                regions[TagOf(rt_text[i])][k].indent # << >>

StartMarkers == {k \in 1..Len(rt_text) : IsOpen(rt_text[k])}

LastStart == CHOOSE k \in StartMarkers : \A k2 \in StartMarkers : k2 <= k

\* C7: a start marker read while a region is open throws away the lines of the
\* open region and begins a new region with no lines (lines never reaches back
\* before the last start marker); a name is a key of regions only if one of its
\* start markers was closed by its end marker, so a region cut off by another
\* start marker or by the end of the file is not recorded; and every line is
\* accepted in every state of the scan (no error).
C7_NestingDiscards ==
    /\ IF StartMarkers = {}
       THEN current_tag = None /\ lines = << >>
       ELSE IF \E c \in (LastStart + 1)..Len(rt_text) : ValidPair(LastStart, c)
       THEN current_tag = None /\ lines = << >>
       ELSE /\ current_tag = TagOf(rt_text[LastStart])
            /\ lines = SubSeq(rt_text, LastStart + 1, Len(rt_text))
    /\ DOMAIN regions =
          {TagOf(rt_text[i]) :
              i \in {i2 \in 1..Len(rt_text) : \E j \in 1..Len(rt_text) : ValidPair(i2, j)}}
    /\ (rt_pc = "scan" /\ Len(rt_text) < MaxLines) =>
          \A l \in LineDomain : ENABLED ReadLine(l)

\* C7 witness: a parsed file in which region A had lines when the start marker
\* of B was read, B was closed, and A is not recorded while B is, without A's lines
C7_Witness ==
    /\ rt_pc = "done"
    /\ \E i \in 1..Len(rt_text), k \in 1..Len(rt_text) :
          /\ i + 1 < k
          /\ IsOpen(rt_text[i]) /\ TagOf(rt_text[i]) = "A"
          /\ \A m \in (i + 1)..(k - 1) : rt_text[m].body[1] = "code"
          /\ IsOpen(rt_text[k]) /\ TagOf(rt_text[k]) = "B"
          /\ \E c \in (k + 2)..Len(rt_text) : ValidPair(k, c)
    /\ "A" \notin DOMAIN regions
    /\ "B" \in DOMAIN regions
    /\ Len(regions["B"]) = 1

\* the line the loop iteration of this step has read
LineRead == rt_text'[Len(rt_text')]

\* this step is a loop iteration that reads an end marker
ReadsEndMarker ==
    /\ Len(rt_text') = Len(rt_text) + 1
    /\ rt_text' = Append(rt_text, LineRead)
    /\ IsClose(LineRead)

\* C18: an end marker whose name differs from the open region's name leaves the
\* region open, keeps its accumulated lines, appends the end-marker line itself
\* to them and records nothing; an end marker read while no region is open
\* changes nothing.
C18_MismatchedEnd ==
    [][ReadsEndMarker =>
          /\ (current_tag # None /\ current_tag # TagOf(LineRead)) =>
                /\ current_tag' = current_tag
                /\ lines' = Append(lines, LineRead)
                /\ regions' = regions
          /\ current_tag = None =>
                /\ current_tag' = None
                /\ lines' = lines
                /\ regions' = regions]_vars

\* C18 witness: region A was open with a line, the end marker of B was read, and
\* A is still open with that end marker as its last line and B is not recorded;
\* and before that an end marker was read while no region was open
C18_Witness ==
    /\ Len(rt_text) >= 4
    /\ IsClose(rt_text[1])
    /\ IsOpen(rt_text[2]) /\ TagOf(rt_text[2]) = "A"
    /\ rt_text[3].body[1] = "code"
    /\ IsClose(rt_text[Len(rt_text)]) /\ TagOf(rt_text[Len(rt_text)]) = "B"
    /\ \A k \in 4..(Len(rt_text) - 1) : rt_text[k].body[1] = "code"
    /\ current_tag = "A"
    /\ Len(lines) = Len(rt_text) - 2
    /\ lines[Len(lines)] = rt_text[Len(rt_text)]
    /\ regions = EmptyDict

(***************************************************************************)
(* Claims about load_overwrite_examples                                    *)
(***************************************************************************)

IsUidSection(sec) == ~sec.blank /\ sec.uid # None

\* a section holding a code reference and no uid line
IsRefSection(sec) == ~sec.blank /\ sec.uid = None /\ sec.ref # NoRef

\* in file f, section r is the first code-reference section after the uid
\* declaration d, and no other uid was declared in between
FirstRefAfter(f, d, r) ==
    /\ d < r
    /\ IsUidSection(ov_md[f][d])
    /\ IsRefSection(ov_md[f][r])
    /\ \A k \in (d + 1)..(r - 1) :
          ~IsUidSection(ov_md[f][k]) /\ ~IsRefSection(ov_md[f][k])

\* the <<file, declaration, reference>> triples whose referenced region name is
\* known to the region mapping
Associations ==
    { p \in UNION { {f} \X (1..Len(ov_md[f])) \X (1..Len(ov_md[f])) : f \in 1..Len(ov_md) } :
        /\ FirstRefAfter(p[1], p[2], p[3])
        /\ ov_md[p[1]][p[3]].ref[2] \in DOMAIN all_regions }

\* the associations, among A, of the declarations of uid u
AssociationsOf(A, u) == {p \in A : ov_md[p[1]][p[2]].uid = u}

\* the association of A that was made last
LastAssociation(A) ==
    CHOOSE p \in A : \A q \in A : q[1] < p[1] \/ (q[1] = p[1] /\ q[3] <= p[3])

\* the uids declared by the sections read so far
DeclaredUids ==
    UNION { {ov_md[f][k].uid : k \in {k2 \in 1..Len(ov_md[f]) : IsUidSection(ov_md[f][k2])}} :
              f \in 1..Len(ov_md) }

\* C4: while the sections of a file are scanned, current_uid is the uid of the
\* last declaring section as long as no code-reference section followed it and is
\* None after one did (and at the start of every file); uid_to_example holds, for
\* each uid, the text the region mapping gives for the region named by the first
\* code-reference section after a declaration of that uid (the last such
\* association when the uid was declared several times), and nothing else: a
\* declaration gets no second example and a reference met with no current uid
\* associates nothing.
C4_CurrentUid ==
    ov_pc \in {"scan", "done"} =>
        /\ LET cur == IF ov_md = << >> THEN << >> ELSE ov_md[Len(ov_md)]
               decls == {k \in 1..Len(cur) : IsUidSection(cur[k])}
               last == CHOOSE k \in decls : \A k2 \in decls : k2 <= k
           IN  IF decls = {} THEN current_uid = None
               ELSE IF \E r \in (last + 1)..Len(cur) : IsRefSection(cur[r])
               THEN current_uid = None
               ELSE current_uid = cur[last].uid
        /\ LET A == Associations IN
           /\ DOMAIN uid_to_example = {u \in DeclaredUids : AssociationsOf(A, u) # {}}
           /\ \A u \in DOMAIN uid_to_example :
                 LET p == LastAssociation(AssociationsOf(A, u)) IN
                 uid_to_example[u] = all_regions[ov_md[p[1]][p[3]].ref[2]]
           /\ \A p, q \in A : (p[1] = q[1] /\ p[2] = q[2]) => p = q

\* C4 witness: a file declared a uid, its first code reference gave the uid its
\* example, and a second code reference to a region with another text followed
\* without changing it
C4_Witness ==
    /\ ov_pc = "done"
    /\ \E f \in 1..Len(ov_md) :
          /\ Len(ov_md[f]) = 3
          /\ IsUidSection(ov_md[f][1])
          /\ IsRefSection(ov_md[f][2])
          /\ IsRefSection(ov_md[f][3])
          /\ ov_md[f][2].ref[2] \in DOMAIN all_regions
          /\ ov_md[f][3].ref[2] \in DOMAIN all_regions
          /\ all_regions[ov_md[f][2].ref[2]] # all_regions[ov_md[f][3].ref[2]]
          /\ ov_md[f][1].uid \in DOMAIN uid_to_example
          /\ uid_to_example[ov_md[f][1].uid] = all_regions[ov_md[f][2].ref[2]]

\* C5: the example associated with a uid is the dedented text of the referenced
\* region in the example file that the code reference names, whatever the set of
\* example files (also when two files define a region of the same name).
C5_MatchingFile ==
    ov_pc \in {"scan", "done"} =>
        \A u \in DOMAIN uid_to_example :
            AssociationsOf(Associations, u) # {} =>
                LET p == LastAssociation(AssociationsOf(Associations, u))
                    ref == ov_md[p[1]][p[3]].ref
                IN  (/\ ref[1] \in DOMAIN ex_files
                     /\ ref[2] \in DOMAIN parse_region_tags(ex_files[ref[1]]))
                        => uid_to_example[u] = parse_region_tags(ex_files[ref[1]])[ref[2]]

(***************************************************************************)
(* Claims about load_all_types                                             *)
(***************************************************************************)

\* the record list of the file is empty or starts with a Namespace record
EmptyOrNamespace(path) ==
    \/ api_dir[path] = << >>
    \/ api_dir[path][1].type = "Namespace"

\* the file is one of those load_all_types builds a TypeItem from
IsLoaded(path) == path # S_toc_yml /\ ~EmptyOrNamespace(path)

\* the files visited so far that a TypeItem was built from, in visiting order
LoadedFiles == SelectSeq(SubSeq(yml_files, 1, ld_i), IsLoaded)

\* the example the mapping holds for uid, the empty string when it holds none
ExampleFor(uid) == IF uid \in DOMAIN examples THEN examples[uid] ELSE EmptyText

\* C8: every loaded TypeItem and every MemberItem has as its example the text the
\* example mapping holds for its own uid, and the empty string when the mapping
\* has no entry for that uid.
C8_ExampleLookup ==
    \A k \in 1..Len(ld_types) :
        /\ ld_types[k].example = ExampleFor(ld_types[k].uid)
        /\ \A i \in 1..Len(ld_types[k].members) :
              ld_types[k].members[i].example = ExampleFor(ld_types[k].members[i].uid)

\* C9 (as claimed): the files without a TypeItem are exactly those whose record
\* list is empty or starts with a Namespace record; the number of loaded types is
\* the number of the other files
C9_Original ==
    ld_pc = "done" =>
        Len(ld_types) = Cardinality({n \in DOMAIN api_dir : ~EmptyOrNamespace(n)})

\* C9 (amended): no TypeItem is built for a file named toc.yml, for a file whose
\* record list is empty and for a file whose first record has kind Namespace
\* (whatever follows it); exactly one is built for every other file: the number
\* of TypeItems is the number of such files among those visited, and at the end
\* every file of the directory has been visited.
C9_SkippedFiles ==
    /\ Len(ld_types) = Cardinality({k \in 1..ld_i : IsLoaded(yml_files[k])})
    /\ ld_pc = "done" =>
          /\ ld_i = Len(yml_files)
          /\ Len(ld_types) = Cardinality({n \in DOMAIN api_dir : IsLoaded(n)})

\* C9 witness: a finished load of a directory holding toc.yml, a file that starts
\* with a Namespace record followed by others, and a file with a type: one TypeItem
C9_Witness ==
    /\ ld_pc = "done"
    /\ DOMAIN api_dir = LoadFileNames
    /\ Len(api_dir[S_Bar_yml]) > 1
    /\ api_dir[S_Bar_yml][1].type = "Namespace"
    /\ api_dir[S_Bar_yml][2].type = "Class"
    /\ IsLoaded(S_Foo_yml)
    /\ Len(ld_types) = 1

\* C10: the k-th TypeItem is built from the first record of the k-th non-skipped
\* file in sorted file name order, and its members are built from the remaining
\* records of that file, one each, in the order of the file.
C10_MembersInOrder ==
    /\ \A i, j \in 1..Len(yml_files) : i < j => StrLess(yml_files[i], yml_files[j])
    /\ {yml_files[i] : i \in 1..Len(yml_files)} = DOMAIN api_dir
    /\ Len(ld_types) = Len(LoadedFiles)
    /\ \A k \in 1..Len(ld_types) :
          LET items == api_dir[LoadedFiles[k]]
              ti == ld_types[k]
          IN  /\ ti.uid = items[1].uid
              /\ ti.type_kind = items[1].type
              /\ Len(ti.members) = Len(items) - 1
              /\ \A i \in 1..(Len(items) - 1) :
                    /\ ti.members[i].uid = items[i + 1].uid
                    /\ ti.members[i].type_kind = items[i + 1].type

\* C10 witness: a finished load with two TypeItems, the first from Bar.yml with
\* two different members, the second from Foo.yml with none
C10_Witness ==
    /\ ld_pc = "done"
    /\ Len(ld_types) = 2
    /\ LoadedFiles = <<S_Bar_yml, S_Foo_yml>>
    /\ Len(ld_types[1].members) = 2
    /\ ld_types[1].members[1].uid # ld_types[1].members[2].uid
    /\ Len(api_dir[S_Foo_yml]) = 1
    /\ ld_types[2].members = << >>

(***************************************************************************)
(* Claims about prune-toc.py                                               *)
(***************************************************************************)

RECURSIVE IsNodeList(_)
\* seq is a list of TOC nodes: objects whose type and topicUid, when present,
\* are strings and whose items, when present, is a list of TOC nodes
IsNodeList(seq) ==
    \A i \in 1..Len(seq) :
        /\ Kind(seq[i]) = "obj"
        /\ \A k \in DOMAIN seq[i][2] \cap {"type", "topicUid"} : Kind(seq[i][2][k]) = "str"
        /\ "items" \in DOMAIN seq[i][2] =>
              /\ Kind(seq[i][2]["items"]) = "list"
              /\ IsNodeList(seq[i][2]["items"][2])

\* the file is a list of TOC nodes, or an object holding one under "items"
IsWellFormedToc(data) ==
    \/ Kind(data) = "list" /\ IsNodeList(data[2])
    \/ /\ Kind(data) = "obj"
       /\ DOMAIN data[2] = {"items"}
       /\ Kind(data[2]["items"]) = "list"
       /\ IsNodeList(data[2]["items"][2])

HasChildList(node) == "items" \in DOMAIN node[2] /\ node[2]["items"][2] # << >>

HasKind(node, kind) == "type" \in DOMAIN node[2] /\ node[2]["type"] = JStr(kind)

AllowListed(node) ==
    "topicUid" \in DOMAIN node[2] /\ node[2]["topicUid"][2] \in KEEP_MEMBERS_FOR

\* the two nodes have the same fields with the same values, key apart
SameBut(out, node, key) ==
    /\ DOMAIN out[2] \ {key} = DOMAIN node[2] \ {key}
    /\ \A k \in DOMAIN node[2] \ {key} : out[2][k] = node[2][k]

RECURSIVE PrunedAs(_, _)
\* out is the list of nodes seq after pruning, as C11 words it
PrunedAs(out, seq) ==
    /\ Len(out) = Len(seq)
    /\ \A i \in 1..Len(seq) :
          IF ~HasChildList(seq[i])
          THEN out[i] = seq[i]
          ELSE IF HasKind(seq[i], "Namespace")
          THEN /\ SameBut(out[i], seq[i], "items")
               /\ "items" \in DOMAIN out[i][2]
               /\ Kind(out[i][2]["items"]) = "list"
               /\ PrunedAs(out[i][2]["items"][2], seq[i][2]["items"][2])
          ELSE IF AllowListed(seq[i])
          THEN out[i] = seq[i]
          ELSE /\ "items" \notin DOMAIN out[i][2]
               /\ "leaf" \in DOMAIN out[i][2]
               /\ out[i][2]["leaf"] = JBool(TRUE)
               /\ SameBut(DelField(out[i], "leaf"), DelField(seq[i], "items"), "leaf")

\* C11: after prune has run on a list of TOC nodes, a node with a non-empty
\* child list is: when its kind is Namespace, the same node with its child list
\* pruned in the same way; otherwise, when its topicUid is in the allow-list,
\* unchanged with its whole subtree; otherwise the same node without its items
\* key and with leaf set to true. A node with a missing or empty child list is
\* unchanged. The run raises nothing.
C11_PruneNodes ==
    (pr_runs = 1 /\ IsWellFormedToc(toc_in)) =>
        /\ pr_exc = None
        /\ IsWellFormedToc(toc_file)
        /\ Kind(toc_file) = Kind(toc_in)
        /\ PrunedAs(TocList(toc_file), TocList(toc_in))

\* C11 witness: prune ran on a Namespace node that is also in the allow-list and
\* holds a class with a member: the namespace kept its list and the class lost
\* its member and became a leaf
C11_Witness ==
    /\ pr_runs = 1
    /\ IsWellFormedToc(toc_in)
    /\ Len(TocList(toc_in)) = 1
    /\ LET ns == TocList(toc_in)[1]
           out == TocList(toc_file)[1]
       IN  /\ HasKind(ns, "Namespace") /\ AllowListed(ns)
           /\ HasChildList(ns)
           /\ HasChildList(ChildrenOf(ns)[1])
           /\ ~AllowListed(ChildrenOf(ns)[1])
           /\ ~HasKind(ChildrenOf(ns)[1], "Namespace")
           /\ Len(ChildrenOf(out)) = 1
           /\ "items" \notin DOMAIN ChildrenOf(out)[1][2]
           /\ ChildrenOf(out)[1][2]["leaf"] = JBool(TRUE)

\* the value main prunes: the root list of the file
RootValue(data) ==
    IF Kind(data) = "obj" /\ "items" \in DOMAIN data[2] THEN data[2]["items"] ELSE data

\* the i-th element of the root list is a node whose child list is missing or
\* is not a list
NoChildListAt(data, i) ==
    /\ Kind(RootValue(data)) = "list"
    /\ i \in 1..Len(RootValue(data)[2])
    /\ LET node == RootValue(data)[2][i]
       IN  /\ Kind(node) = "obj"
           /\ "items" \in DOMAIN node[2] => Kind(node[2]["items"]) # "list"

\* C12: for every parsed file whose root is a list or an object, with or
\* without an "items" key, and whatever fields its nodes carry, a run of main
\* raises no exception, and a node whose child list is missing or malformed is
\* left unchanged.
C12_NoErrorPath ==
    (pr_runs = 1 /\ Kind(toc_in) \in {"list", "obj"}) =>
        /\ pr_exc = None
        /\ Kind(RootValue(toc_file)) = Kind(RootValue(toc_in))
        /\ \A i \in 1..MaxNodes :
              NoChildListAt(toc_in, i) =>
                  RootValue(toc_file)[2][i] = RootValue(toc_in)[2][i]

RECURSIVE OnlyOpenWhereKept(_)
\* every node of the list reached through Namespace nodes only that has a
\* non-empty child list is a Namespace node or is in the allow-list
OnlyOpenWhereKept(root) ==
    Kind(root) = "list" =>
        \A i \in 1..Len(root[2]) :
            LET node == root[2][i]
                children == IF Kind(node) = "obj" /\ "items" \in DOMAIN node[2]
                            THEN node[2]["items"] ELSE JNull
                uid == IF Kind(node) = "obj" /\ "topicUid" \in DOMAIN node[2]
                       THEN node[2]["topicUid"] ELSE JNull
                ns == Kind(node) = "obj" /\ HasKind(node, "Namespace")
            IN  ~Falsy(children) =>
                    \/ ns /\ OnlyOpenWhereKept(children)
                    \/ ~ns /\ Kind(uid) = "str" /\ uid[2] \in KEEP_MEMBERS_FOR

\* C17: a run of main on a file that a run of main has written rewrites the
\* file with the same content and raises nothing; and in a file that a run has
\* written, every node reached from the root through Namespace nodes only that
\* still has a non-empty child list is a Namespace node or is in the allow-list.
C17_Idempotent ==
    /\ (pr_runs >= 2 /\ (pr_exc = None \/ toc_prev # toc_in)) =>
          /\ pr_exc = None
          /\ toc_file = toc_prev
    /\ (pr_runs >= 1 /\ pr_exc = None) => OnlyOpenWhereKept(RootValue(toc_file))

\* C17 witness: the first run stripped a node with children inside a namespace,
\* and the second run left the file the first had written as it was
C17_Witness ==
    /\ pr_runs = 2
    /\ pr_exc = None
    /\ IsWellFormedToc(toc_in)
    /\ toc_prev # toc_in
    /\ toc_file = toc_prev
    /\ Len(TocList(toc_in)) = 1
    /\ HasKind(TocList(toc_in)[1], "Namespace")
    /\ HasChildList(TocList(toc_in)[1])
    /\ HasChildList(ChildrenOf(TocList(toc_in)[1])[1])
    /\ "leaf" \in DOMAIN ChildrenOf(TocList(toc_file)[1])[1][2]

(***************************************************************************)
(* Claims about inject_tech_preview_banner                                 *)
(***************************************************************************)

\* the line that starts at position i is a top-level heading line: a #, then
\* whitespace, then at least one more character, all on that line
HeadingLineAt(content, i) ==
    /\ i \in 1..Len(content)
    /\ AtLineStart(content, i)
    /\ content[i] = "#"
    /\ i + 2 <= Len(content)
    /\ content[i + 1] \in {" ", "\t"}
    /\ content[i + 2] # "\n"

HeadingLines(content) == {i \in 1..Len(content) : HeadingLineAt(content, i)}

\* C14: the call returns its input when the page has no top-level heading line;
\* otherwise it returns the input with a newline and the banner inserted right
\* after the end of the first top-level heading line and nowhere else, every
\* other character kept in its place.
C14_BannerAfterHeading ==
    bn_pc = "done" =>
        IF HeadingLines(bn_content) = {}
        THEN bn_result = bn_content
        ELSE LET first == CHOOSE i \in HeadingLines(bn_content) :
                              \A j \in HeadingLines(bn_content) : i <= j
                 e == LineEnd(bn_content, first)
             IN  bn_result = SubSeq(bn_content, 1, e) \o <<"\n">> \o TECH_PREVIEW_BANNER
                                 \o SubSeq(bn_content, e + 1, Len(bn_content))

(***************************************************************************)
(* Claims about the Methods section                                        *)
(***************************************************************************)

\* the entries of the table whose key occurs in the name without its trailing
\* Async
MatchingEntries(name) ==
    LET base == IF Len(name) >= 5 /\ SubSeq(name, Len(name) - 4, Len(name)) = S_Async
                THEN SubSeq(name, 1, Len(name) - 5)
                ELSE name
    IN  {k \in 1..Len(GROUP_PREFIXES) : StrContains(base, GROUP_PREFIXES[k][1])}

\* the label of the first matching entry in table order, "Other" when there is none
ExpectedGroup(name) ==
    IF MatchingEntries(name) = {}
    THEN "Other"
    ELSE GROUP_PREFIXES[CHOOSE k \in MatchingEntries(name) :
                            \A k2 \in MatchingEntries(name) : k <= k2][2]

\* the places (group, index) of the dict that hold the method at position p
PlacesOf(p) ==
    {pl \in UNION {{g} \X (1..Len(groups[g][2])) : g \in 1..Len(groups)} :
        groups[pl[1]][2][pl[2]] = p}

RECURSIVE HeadingsOf(_)
\* the headings of the groups gs in order, each followed by its methods in order
HeadingsOf(gs) ==
    IF gs = << >>
    THEN << >>
    ELSE <<<<"###", Head(gs)[1]>>>>
             \o [k \in 1..Len(Head(gs)[2]) |-> <<"####", methods[Head(gs)[2][k]]>>]
             \o HeadingsOf(Tail(gs))

\* C16: every method visited is in exactly one group, once; that group is the
\* label of the first table entry, in table order, whose key occurs in the name
\* once a trailing Async is stripped, and "Other" when no key occurs in it; no
\* label has two groups; the groups are in the order of their first methods
\* and the methods of a group in source order; and the page lists the groups
\* and their methods in that order.
C16_MethodGroups ==
    /\ \A p \in 1..Len(methods) : Cardinality(PlacesOf(p)) = 1
    /\ \A g \in 1..Len(groups) :
          /\ groups[g][2] # << >>
          /\ \A k \in 1..Len(groups[g][2]) :
                /\ groups[g][2][k] \in 1..Len(methods)
                /\ groups[g][1] = ExpectedGroup(methods[groups[g][2][k]])
          /\ \A k \in 1..(Len(groups[g][2]) - 1) : groups[g][2][k] < groups[g][2][k + 1]
          /\ \A h \in (g + 1)..Len(groups) :
                /\ groups[g][1] # groups[h][1]
                /\ groups[g][2][1] < groups[h][2][1]
    /\ mg_pc = "done" => mg_out = HeadingsOf(groups)

\* C16 witness: three methods were grouped and emitted; the first, whose name
\* holds the keys of two entries, and the third are in the group of the earlier
\* entry, which comes first, and the second is in another group
C16_Witness ==
    /\ mg_pc = "done"
    /\ Len(methods) = 3
    /\ Cardinality(MatchingEntries(methods[1])) >= 2
    /\ Len(groups) = 2
    /\ groups[1] = <<"Jobs", <<1, 3>>>>
    /\ groups[2] = <<"Job Workers", <<2>>>>
    /\ Len(mg_out) = 5
    /\ methods[1] # methods[3]

(***************************************************************************)
(* Claims about link rewriting                                             *)
(***************************************************************************)

\* the tokens i..j of the page are a Markdown link to the documentation host:
\* [text](host[next/]path) with no ] in the text and no ) or newline in the path
IsDocsLink(content, i, j) ==
    /\ 1 <= i /\ j <= Len(content)
    /\ content[i] = "["
    /\ content[j] = ")"
    /\ \E k \in (i + 1)..(j - 3) :
          /\ content[k] = "]"
          /\ \A r \in (i + 1)..(k - 1) : content[r] # "]"
          /\ content[k + 1] = "("
          /\ content[k + 2] \in DocsHosts
          /\ \A r \in (k + 3)..(j - 1) : content[r] \notin {")", "\n"}

\* the ] that ends the text of the link that starts at i
TextEnd(content, i) ==
    CHOOSE r \in (i + 1)..Len(content) :
        content[r] = "]" /\ \A r2 \in (i + 1)..(r - 1) : content[r2] # "]"

\* the first token of the path of the link that starts at i, after the host
\* and a next/
PathStart(content, i) ==
    LET k == TextEnd(content, i)
    IN  IF k + 3 <= Len(content) /\ content[k + 3] = "next/" THEN k + 4 ELSE k + 3

\* path without the slashes at its end and with the renamed segment replaced
RewrittenPath(path) ==
    LET kept == {n \in 0..Len(path) :
                    \A r \in (n + 1)..Len(path) : path[r] = "/"}
        n0 == CHOOSE n \in kept : \A n2 \in kept : n <= n2
    IN  [r \in 1..n0 |->
            IF path[r] = "camunda-api-rest" THEN "orchestration-cluster-api-rest"
            ELSE IF r = n0 /\ path[r] = "next/" THEN "next"
            ELSE IF r = n0 /\ path[r] \in DocsHosts \cup {"https://camunda.com/"}
            THEN TokenRStrip(path[r])
            ELSE path[r]]

RECURSIVE RewrittenFrom(_, _, _)
\* the page from its i-th token on with every link to the documentation host,
\* from left to right, replaced by [text](prefix path'.md), prefix being ../
\* repeated depth times, and every other token kept
RewrittenFrom(content, i, depth) ==
    IF i > Len(content)
    THEN << >>
    ELSE IF \E j \in i..Len(content) : IsDocsLink(content, i, j)
    THEN LET j == CHOOSE e \in i..Len(content) : IsDocsLink(content, i, e)
         IN  SubSeq(content, i, TextEnd(content, i))
                 \o <<"(">> \o [r \in 1..depth |-> "../"]
                 \o RewrittenPath(SubSeq(content, PathStart(content, i), j - 1))
                 \o <<".md", ")">>
                 \o RewrittenFrom(content, j + 1, depth)
    ELSE <<content[i]>> \o RewrittenFrom(content, i + 1, depth)

\* the page holds no link to the documentation host
NoDocsLink(content) ==
    ~\E i \in 1..Len(content), j \in 1..Len(content) : IsDocsLink(content, i, j)

\* C15: a page with no link to the documentation host is returned as it is by
\* both rewriters; otherwise every such link [text](host[next/]path) is replaced
\* by [text](prefix path'.md), with the text kept, the slashes that end the path
\* dropped and the renamed path segment replaced, and every other token is
\* kept; the prefix is ../ three times in rewrite_camunda_docs_links and twice
\* in _rewrite_landing_links, and that is the only difference of the results.
C15_LinkRewriting ==
    /\ lk_pc \in {"api", "done"} =>
          /\ lk_api = RewrittenFrom(lk_content, 1, 3)
          /\ NoDocsLink(lk_content) => lk_api = lk_content
    /\ lk_pc = "done" =>
          /\ lk_landing = RewrittenFrom(lk_content, 1, 2)
          /\ NoDocsLink(lk_content) => lk_landing = lk_content

\* C15 witness: both rewriters ran on a page with a link to the documentation
\* host whose path holds the renamed segment and ends with a slash
C15_Witness ==
    /\ lk_pc = "done"
    /\ lk_content = <<"[", "t", "]", "(", "https://docs.camunda.io/docs/",
                      "camunda-api-rest", "/", ")">>
    /\ lk_api = <<"[", "t", "]", "(", "../", "../", "../",
                  "orchestration-cluster-api-rest", ".md", ")">>
    /\ lk_landing = <<"[", "t", "]", "(", "../", "../",
                      "orchestration-cluster-api-rest", ".md", ")">>

(***************************************************************************)
(* Claims about main of generate-docusaurus-md.py                          *)
(***************************************************************************)

WrittenSet == {written[k] : k \in 1..Len(written)}

SevenPages == {GENERATORS[k] : k \in 1..Len(GENERATORS)}

CompleteSet == SevenPages \cup {SIDEBAR_PATH, LANDING_PATH}

====
